---- MODULE Spec2Model ----
(***************************************************************************)
(* A model of the containers of the structures library: MinMaxHeap,       *)
(* RankPairingHeap, UnionFind, QueueDeleter with ImmutableList,           *)
(* RangeMinQuery and SuffixTree.  Each container has its own              *)
(* specification over its own variables; the variables of the other       *)
(* containers stay at their initial values.                                *)
(***************************************************************************)
EXTENDS Integers, Sequences, FiniteSets, TLC

VARIABLES
    values,         \* MinMaxHeap::values, the heap array (index 0 is values[1])
    vals,           \* the reference multiset run beside the heap (tests.cpp `vals`)
    nodes,          \* RankPairingHeap: the Node objects, by address
    first_root,     \* RankPairingHeap::first_root
    other_roots,    \* RankPairingHeap::other_roots
    current_nodes,  \* RankPairingHeap::current_nodes
    num_items,      \* RankPairingHeap::num_items
    null_deref,     \* a Node member was read through a null pointer
    live,           \* reference for RankPairingHeap: priority of each live value
    draining,       \* the caller has stopped pushing and only pops
    final,          \* the live values and their priorities when draining began
    drained,        \* the top() pairs read while draining, in order
    uf_nodes,       \* UnionFind::uf_nodes
    connected,      \* reference for UnionFind: the pairs joined by a path of unions
    qd,             \* the QueueDeleter object: head, tail, its queue Nodes, whether destroyed
    lists,          \* the ImmutableList Nodes that share the QueueDeleter
    threads,        \* per thread: the list handles it holds and its stack of queue() frames
    aborted,        \* an assert failed and the process aborted
    bad_read,       \* an element was read outside its container
    rmq,            \* the RangeMinQuery object and the sequence it was built over
    st,             \* the SuffixTree object and the text it was built over
    upq,            \* the UpdateablePriorityQueue object: queue and seen
    upq_ref,        \* reference for it: what was inserted and popped since the last clear()
    il,             \* the ImmutableList Nodes on the free store and the lists that exist
    op              \* the last operation applied and its arguments (history)

heapVars == <<values, vals>>

rphVars == <<nodes, first_root, other_roots, current_nodes, num_items, null_deref>>

drainVars == <<draining, final, drained>>

ufVars == <<uf_nodes, connected>>

qdVars == <<qd, lists, threads>>

failVars == <<aborted, bad_read>>

upqVars == <<upq, upq_ref>>

extVars == <<qdVars, failVars, rmq, st, upqVars, il>>

\* what a step of a thread in the QueueDeleter leaves alone
qdOthers == <<heapVars, rphVars, live, drainVars, ufVars, failVars, rmq, st, upqVars, il>>

vars == <<values, vals, nodes, first_root, other_roots, current_nodes, num_items,
          null_deref, live, draining, final, drained, uf_nodes, connected,
          qd, lists, threads, aborted, bad_read, rmq, st, upq, upq_ref, il, op>>

-----------------------------------------------------------------------------
(* Bounds *)

\* values stored in the containers are drawn from 1..MaxVal
MaxVal == 3
\* longest sequence handed to the bulk constructor of MinMaxHeap
MaxBulk == 8
\* pushes are cut off when the heap holds this many values
MaxHeapSize == 9

\* an UpdateablePriorityQueue takes elements of identities 1..MaxUpqId and
\* priorities 1..MaxUpqPrio and holds at most MaxQueueLen of them
MaxUpqId == 2
MaxUpqPrio == 2
MaxQueueLen == 3
\* a thread builds at most MaxLists ImmutableLists of at most MaxIlNodes
\* Nodes in all, of items 1..MaxItem
MaxLists == 4
MaxIlNodes == 3
MaxItem == 2
\* the values pushed on a RankPairingHeap are drawn from 1..MaxKey
MaxKey == 4
\* a loaded RankPairingHeap holds LoadKeys values, linked by LoadRounds pops;
\* its caller reprioritizes the RaisedKeys values loaded last
LoadKeys == 16
LoadRounds == 4
RaisedKeys == 6
\* their priorities from 1..MaxPrio
MaxPrio == 2

\* a UnionFind is constructed for NumIndices indices
NumIndices == 5

\* list Nodes that share one QueueDeleter
MaxListNodes == 3
\* threads that hold list handles
NumThreads == 2

\* longest sequence a RangeMinQuery is constructed over
MaxRmqLen == 3

\* characters of the texts and queries of a SuffixTree
AlphabetSize == 2
\* longest text a SuffixTree is built over
MaxTextLen == 4
\* longest string a SuffixTree is queried with
MaxQueryLen == 4

Vals == 1..MaxVal

\* the sequences of values of length n
SeqsOfLen(n) == [1..n -> Vals]

-----------------------------------------------------------------------------
(* MinMaxHeap (min_max_heap.hpp).  The code indexes from 0; At and Swap    *)
(* translate an index of the code to the 1-based TLA+ sequence.            *)

At(a, i) == a[i + 1]

Swap(a, i, j) == [a EXCEPT ![i + 1] = a[j + 1], ![j + 1] = a[i + 1]]

\* values.pop_back()
PopBack(a) == SubSeq(a, 1, Len(a) - 1)

\* cmp with the strict comparison on the min levels instead
cmp_strict_on_min(v1, v2, level) == (level % 2 = 0) = (v1 < v2)

cmp(v1, v2, level) == (level % 2 = 0) # (v1 > v2)

\* the loop `for (j = leftest + 1; j <= rightest; j++)` of restore_heap_below
RECURSIVE most_among(_, _, _, _, _)
most_among(a, most, j, rightest, level) ==
    IF j > rightest \/ j >= Len(a) THEN most
    ELSE most_among(a, IF cmp(At(a, most), At(a, j), level) THEN most ELSE j,
                    j + 1, rightest, level)

RECURSIVE restore_heap_below(_, _, _)
restore_heap_below(a, i, level) ==
    LET rightest == 4 * i + 6
        leftest  == rightest - 3
    IN
    IF leftest >= Len(a) THEN
        \* i has no grandchildren
        LET left  == 2 * i + 1
            right == left + 1
        IN
        IF left >= Len(a) THEN a
        ELSE
            LET most1 == IF cmp(At(a, i), At(a, left), level) THEN i ELSE left
                most  == IF right < Len(a)
                         THEN (IF cmp(At(a, most1), At(a, right), level)
                               THEN most1 ELSE right)
                         ELSE most1
            IN IF most # i THEN Swap(a, i, most) ELSE a
    ELSE
        LET first == IF cmp(At(a, i), At(a, leftest), level) THEN i ELSE leftest
            most  == most_among(a, first, leftest + 1, rightest, level)
            right == 2 * i + 2
            direct_child_swapped ==
                /\ leftest + 2 >= Len(a)
                /\ cmp(At(a, right), At(a, most), level)
        IN
        IF direct_child_swapped THEN Swap(a, i, right)
        ELSE IF most # i THEN
            LET a1 == Swap(a, i, most)
                intermediate == IF most <= leftest + 1 THEN 2 * i + 1 ELSE 2 * i + 2
                a2 == IF cmp(At(a1, most), At(a1, intermediate), level + 1)
                      THEN Swap(a1, intermediate, most)
                      ELSE a1
            IN restore_heap_below(a2, most, level + 2)
        ELSE a

RECURSIVE restore_heap_above(_, _, _)
restore_heap_above(a, i, level) ==
    IF i <= 2 THEN a
    ELSE
        LET grandparent == ((i + 1) \div 4) - 1 IN
        IF cmp(At(a, i), At(a, grandparent), level - 2)
        THEN restore_heap_above(Swap(a, i, grandparent), grandparent, level - 2)
        ELSE a

\* the loop `while (next_level_begin - 1 < values.size())`, shared by the
\* constructor (level starts at -2) and post_add (level starts at -1);
\* the result is <<next_level_begin, level>>
RECURSIVE level_loop(_, _, _)
level_loop(n, next_level_begin, level) ==
    IF next_level_begin - 1 < n
    THEN level_loop(n, next_level_begin * 2, level + 1)
    ELSE <<next_level_begin, level>>

\* the loop `for (i = internal_level_begin; i < internal_level_end; i++)`
RECURSIVE restore_layer(_, _, _, _)
restore_layer(a, i, internal_level_end, level) ==
    IF i < internal_level_end
    THEN restore_layer(restore_heap_below(a, i, level), i + 1, internal_level_end, level)
    ELSE a

\* the loop `while (level >= 0)` of the constructor
RECURSIVE heapify_layers(_, _, _, _)
heapify_layers(a, internal_level_begin, internal_level_end, level) ==
    IF level >= 0
    THEN heapify_layers(restore_layer(a, internal_level_begin, internal_level_end, level),
                        ((internal_level_begin + 1) \div 2) - 1,
                        internal_level_begin,
                        level - 1)
    ELSE a

\* MinMaxHeap(Iter begin, Iter end)
BulkBuild(s) ==
    IF Len(s) = 0 THEN <<>>
    ELSE
        LET ll == level_loop(Len(s), 1, -2)
            next_level_begin == ll[1]
            level == ll[2]
        IN heapify_layers(s, (next_level_begin \div 4) - 1,
                          (next_level_begin \div 2) - 1, level)

post_add_no_parent_swap(a) ==
    IF Len(a) = 1 THEN a
    ELSE restore_heap_above(a, Len(a) - 1, level_loop(Len(a), 1, -1)[2])

post_add(a) ==
    IF Len(a) = 1 THEN a
    ELSE
        LET i == Len(a) - 1
            parent == ((i + 1) \div 2) - 1
            level == level_loop(Len(a), 1, -1)[2]
        IN
        IF cmp(At(a, i), At(a, parent), level - 1)
        THEN restore_heap_above(Swap(a, i, parent), parent, level - 1)
        ELSE restore_heap_above(a, i, level)

push(a, value) == post_add(Append(a, value))

emplace(a, value) == post_add(Append(a, value))

\* pop_min without `values.front() = values.back()`
pop_min_drop_back(a) == restore_heap_below(PopBack(a), 0, 0)

pop_min(a) ==
    restore_heap_below(PopBack([a EXCEPT ![1] = a[Len(a)]]), 0, 0)

pop_max_first_child(a) ==
    IF Len(a) <= 2 THEN PopBack(a)
    ELSE restore_heap_below(PopBack([a EXCEPT ![2] = a[Len(a)]]), 1, 1)

\* pop_max with the comparison of values[1] and values[2] turned round
pop_max_smaller_child(a) ==
    IF Len(a) <= 2 THEN PopBack(a)
    ELSE
        LET i == IF At(a, 1) < At(a, 2) THEN 1 ELSE 2
        IN restore_heap_below(PopBack([a EXCEPT ![i + 1] = a[Len(a)]]), i, 1)

pop_max(a) ==
    IF Len(a) <= 2 THEN PopBack(a)
    ELSE
        LET i == IF At(a, 1) > At(a, 2) THEN 1 ELSE 2
        IN restore_heap_below(PopBack([a EXCEPT ![i + 1] = a[Len(a)]]), i, 1)

\* the assertion compiled out
assert_compiled_out(a) == TRUE

\* assert(!values.empty())
assert_not_empty(a) == Len(a) > 0

\* min(), max(), pop_min() or pop_max() called in any state: the assertion,
\* then the body, which reads values[0] or values.back(); after is the
\* array the body leaves
checked_call(a, after) ==
    IF ~assert_not_empty(a) THEN [aborted |-> TRUE, bad_read |-> FALSE, values |-> a]
    ELSE IF Len(a) = 0 THEN [aborted |-> FALSE, bad_read |-> TRUE, values |-> a]
    ELSE [aborted |-> FALSE, bad_read |-> FALSE, values |-> after]

heap_min(a) == At(a, 0)

heap_max(a) ==
    IF Len(a) = 1 THEN At(a, 0)
    ELSE IF Len(a) = 2 THEN At(a, 1)
    ELSE IF At(a, 1) < At(a, 2) THEN At(a, 2) ELSE At(a, 1)

heap_size(a) == Len(a)

heap_empty(a) == Len(a) = 0

\* the orders in which a range-for may visit the unordered_set S
RECURSIVE Orders(_)
Orders(S) ==
    IF S = {} THEN {<<>>}
    ELSE UNION {{<<x>> \o s : s \in Orders(S \ {x})} : x \in S}

-----------------------------------------------------------------------------
(* RankPairingHeap (rank_pairing_heap.hpp).  A value is given at most one   *)
(* Node in the life of a heap, so the Node made for value v has address v; *)
(* NULL is the null pointer.  The operations take and return the heap h,   *)
(* a record of the members of the class and of the Nodes on the free store.*)

\* Pushed are the values of a caller that starts from the empty heap, Keys
\* those of any caller
Pushed == 1..MaxKey
Keys == 1..(IF MaxKey < LoadKeys + LoadRounds THEN LoadKeys + LoadRounds ELSE MaxKey)
Prios == 1..MaxPrio
NULL == 0

\* a Node that is not allocated
NoNode == [priority |-> 0, rank |-> 0, parent |-> NULL, left |-> NULL, right |-> NULL]

\* Node(value, priority)
NewNode(priority) ==
    [priority |-> priority, rank |-> 0, parent |-> NULL, left |-> NULL, right |-> NULL]

\* Compare = less<PriorityType>
compare(a, b) == a < b

\* RankPairingHeap()
EmptyRph ==
    [nodes |-> [k \in Keys |-> NoNode],
     first_root |-> NULL,
     other_roots |-> {},
     current_nodes |-> [k \in Keys |-> "absent"],
     num_items |-> 0,
     null_deref |-> FALSE]

\* top(): the pair <<value, priority>> of the first root
top(h) == <<h.first_root, h.nodes[h.first_root].priority>>

\* size_t arithmetic wraps modulo 2^64; a wrapped value is beyond every size
\* and every table of the model, and SizeMax stands for it
SizeMax == 2147483647
to_size_t(x) == IF x < 0 THEN SizeMax ELSE x

\* top() called in any state: it reads first_root->value
top_call(h) == IF h.first_root = NULL THEN [h EXCEPT !.null_deref = TRUE] ELSE h

\* pop() called on a heap without a root: num_items--, then top() for
\* current_nodes[top().first]
pop_on_empty(h) == top_call([h EXCEPT !.num_items = to_size_t(@ - 1)])

rph_empty(h) == h.first_root = NULL

rph_size(h) == h.num_items

\* link without `loser->parent = winner`
link_no_parent(h, winner, loser) ==
    LET h1 == IF h.nodes[winner].rank = h.nodes[loser].rank
              THEN [h EXCEPT !.nodes[winner].rank = @ + 1]
              ELSE h
        moved == h1.nodes[winner].left
        h2 == [h1 EXCEPT !.nodes[loser].right = moved]
        h3 == IF moved # NULL THEN [h2 EXCEPT !.nodes[moved].parent = loser] ELSE h2
    IN [h3 EXCEPT !.nodes[winner].left = loser]

link(h, winner, loser) ==
    LET h1 == IF h.nodes[winner].rank = h.nodes[loser].rank
              THEN [h EXCEPT !.nodes[winner].rank = @ + 1]
              ELSE h
        moved == h1.nodes[winner].left
        h2 == [h1 EXCEPT !.nodes[loser].right = moved]
        h3 == IF moved # NULL THEN [h2 EXCEPT !.nodes[moved].parent = loser] ELSE h2
    IN [h3 EXCEPT !.nodes[winner].left = loser, !.nodes[loser].parent = winner]

place_half_tree_keep_first(h, node) ==
    IF h.first_root = NULL
    THEN [h EXCEPT !.first_root = node]
    ELSE [h EXCEPT !.other_roots = @ \cup {node}]

place_half_tree(h, node) ==
    IF h.first_root = NULL
    THEN [h EXCEPT !.first_root = node]
    ELSE IF compare(top(h)[2], h.nodes[node].priority)
    THEN [h EXCEPT !.other_roots = @ \cup {h.first_root}, !.first_root = node]
    ELSE [h EXCEPT !.other_roots = @ \cup {node}]

Max2(a, b) == IF a < b THEN b ELSE a
Min2(a, b) == IF b < a THEN b ELSE a

\* the loop `while (next_parent)` of reprioritize
RECURSIVE restore_ranks(_, _)
restore_ranks(h, next_parent) ==
    IF next_parent = NULL THEN h
    ELSE
        LET n == h.nodes[next_parent] IN
        IF n.right # NULL /\ n.left # NULL THEN
            LET lr == h.nodes[n.left].rank
                rr == h.nodes[n.right].rank
                next_rank == IF Max2(lr, rr) - Min2(lr, rr) <= 1
                             THEN Max2(lr, rr) + 1
                             ELSE Max2(lr, rr)
            IN IF next_rank >= n.rank THEN h
               ELSE restore_ranks([h EXCEPT !.nodes[next_parent].rank = next_rank],
                                  n.parent)
        ELSE IF n.right # NULL THEN
            restore_ranks([h EXCEPT !.nodes[next_parent].rank = h.nodes[n.right].rank + 1],
                          n.parent)
        ELSE IF n.left # NULL THEN
            restore_ranks([h EXCEPT !.nodes[next_parent].rank = h.nodes[n.left].rank + 1],
                          n.parent)
        ELSE
            restore_ranks([h EXCEPT !.nodes[next_parent].rank = 0], n.parent)

\* the priority raised with the node left where it is
raise_priority_in_place(h, node, priority) ==
    [h EXCEPT !.nodes[node].priority = priority]

\* the branches of reprioritize once the priority is known to rise
raise_priority(h, node, priority) ==
    LET h1 == [h EXCEPT !.nodes[node].priority = priority] IN
    IF h1.nodes[node].parent = NULL THEN
        \* this is the root of a half tree
        IF compare(top(h1)[2], priority)
        THEN [h1 EXCEPT !.other_roots = (@ \cup {h1.first_root}) \ {node},
                        !.first_root = node]
        ELSE h1
    ELSE
        \* remove this node from the tree and put its right subtree in its place
        LET next_parent == h1.nodes[node].parent
            sub == h1.nodes[node].right
            h2 == [h1 EXCEPT !.nodes[node].parent = NULL]
            h3 == IF h2.nodes[next_parent].left = node
                  THEN [h2 EXCEPT !.nodes[next_parent].left = sub]
                  ELSE [h2 EXCEPT !.nodes[next_parent].right = sub]
            h4 == IF sub # NULL THEN [h3 EXCEPT !.nodes[sub].parent = next_parent]
                  ELSE h3
            h5 == [h4 EXCEPT !.nodes[node].right = NULL]
        IN restore_ranks(place_half_tree(h5, node), next_parent)

reprioritize_always(h, node, priority) ==
    IF node = NULL THEN [h EXCEPT !.null_deref = TRUE]
    ELSE raise_priority(h, node, priority)

reprioritize_on_equal(h, node, priority) ==
    IF node = NULL THEN [h EXCEPT !.null_deref = TRUE]
    ELSE IF ~compare(priority, h.nodes[node].priority)
    THEN raise_priority(h, node, priority)
    ELSE h

reprioritize_in_place(h, node, priority) ==
    IF node = NULL THEN [h EXCEPT !.null_deref = TRUE]
    ELSE IF compare(h.nodes[node].priority, priority)
    THEN [h EXCEPT !.nodes[node].priority = priority]
    ELSE h

\* reprioritize(); a null `node` is dereferenced by its first statement
reprioritize(h, node, priority) ==
    IF node = NULL THEN [h EXCEPT !.null_deref = TRUE]
    ELSE IF compare(h.nodes[node].priority, priority)
    THEN raise_priority(h, node, priority)
    ELSE h

push_or_reprioritize_unguarded(h, value, priority) ==
    IF h.current_nodes[value] # "absent"
    THEN reprioritize(h, IF h.current_nodes[value] = "node" THEN value ELSE NULL, priority)
    ELSE
        LET h1 == place_half_tree([h EXCEPT !.nodes[value] = NewNode(priority)], value)
        IN [h1 EXCEPT !.current_nodes[value] = "node", !.num_items = @ + 1]

\* push_or_reprioritize with num_items++ after either branch
push_or_reprioritize_counting(h, value, priority) ==
    IF h.current_nodes[value] # "absent" THEN
        IF h.current_nodes[value] = "node"
        THEN [reprioritize(h, value, priority) EXCEPT !.num_items = @ + 1]
        ELSE [h EXCEPT !.num_items = @ + 1]
    ELSE
        LET h1 == place_half_tree([h EXCEPT !.nodes[value] = NewNode(priority)], value)
        IN [h1 EXCEPT !.current_nodes[value] = "node", !.num_items = @ + 1]

\* current_nodes maps a value to "absent" (no entry), "node" (the entry holds
\* the value's Node) or "null" (the entry holds nullptr)
push_or_reprioritize(h, value, priority) ==
    IF h.current_nodes[value] # "absent" THEN
        IF h.current_nodes[value] = "node"
        THEN reprioritize(h, value, priority)
        ELSE h
    ELSE
        LET h1 == place_half_tree([h EXCEPT !.nodes[value] = NewNode(priority)], value)
        IN [h1 EXCEPT !.current_nodes[value] = "node", !.num_items = @ + 1]

\* the loop `while (prev_spine_node->right)` of pop; the result is
\* <<nodes, new_roots>>
RECURSIVE collect_spine(_, _, _)
collect_spine(ns, new_roots, prev_spine_node) ==
    IF ns[prev_spine_node].right # NULL THEN
        LET next == ns[prev_spine_node].right
        IN collect_spine([ns EXCEPT ![prev_spine_node].right = NULL,
                                    ![next].parent = NULL],
                         Append(new_roots, next), next)
    ELSE <<ns, new_roots>>

\* the loop `while (buckets.size() <= half_tree_root->rank)` of pop
RECURSIVE grow_buckets(_, _)
grow_buckets(buckets, rank) ==
    IF Len(buckets) <= rank THEN grow_buckets(Append(buckets, NULL), rank)
    ELSE buckets

\* the loop `for (Node* half_tree_root : new_roots)` of pop; the result is
\* <<h, buckets>>
RECURSIVE one_pass(_, _, _)
one_pass(h, buckets, new_roots) ==
    IF Len(new_roots) = 0 THEN <<h, buckets>>
    ELSE
        LET half_tree_root == Head(new_roots)
            l == h.nodes[half_tree_root].left
            h1 == [h EXCEPT !.nodes[half_tree_root].rank =
                                IF l # NULL THEN h.nodes[l].rank + 1 ELSE 0]
            bucket_num == h1.nodes[half_tree_root].rank
            b1 == grow_buckets(buckets, bucket_num)
            other_root == b1[bucket_num + 1]
        IN
        IF other_root # NULL THEN
            IF compare(h1.nodes[half_tree_root].priority, h1.nodes[other_root].priority)
            THEN one_pass(place_half_tree(link(h1, other_root, half_tree_root), other_root),
                          [b1 EXCEPT ![bucket_num + 1] = NULL], Tail(new_roots))
            ELSE one_pass(place_half_tree(link(h1, half_tree_root, other_root), half_tree_root),
                          [b1 EXCEPT ![bucket_num + 1] = NULL], Tail(new_roots))
        ELSE
            one_pass(h1, [b1 EXCEPT ![bucket_num + 1] = half_tree_root], Tail(new_roots))

\* the loop `for (Node* half_tree_root : buckets)` of pop
RECURSIVE place_buckets(_, _)
place_buckets(h, buckets) ==
    IF Len(buckets) = 0 THEN h
    ELSE IF Head(buckets) # NULL
    THEN place_buckets(place_half_tree(h, Head(buckets)), Tail(buckets))
    ELSE place_buckets(h, Tail(buckets))

\* pop(), `order` being the order in which other_roots is iterated
pop(h, order) ==
    LET popped == h.first_root
        h1 == [h EXCEPT !.num_items = @ - 1, !.current_nodes[popped] = "null"]
        l == h1.nodes[popped].left
        spine == IF l # NULL
                 THEN collect_spine([h1.nodes EXCEPT ![l].parent = NULL], <<l>>, l)
                 ELSE <<h1.nodes, <<>> >>
        new_roots == spine[2] \o order
        \* delete first_root, its left pointer cleared
        h2 == [h1 EXCEPT !.nodes = [spine[1] EXCEPT ![popped] = NoNode],
                         !.other_roots = {},
                         !.first_root = NULL]
        passed == one_pass(h2, <<>>, new_roots)
    IN place_buckets(passed[1], passed[2])

\* one order in which a range-for may visit the unordered_set S
RECURSIVE Ascending(_)
Ascending(S) ==
    IF S = {} THEN <<>>
    ELSE LET least == CHOOSE x \in S : \A y \in S : x <= y
         IN <<least>> \o Ascending(S \ {least})

\* push_or_reprioritize for the values k..n, all at priority 1 (step 0) or
\* two by two at priorities that cycle through 1..MaxPrio
RECURSIVE load(_, _, _, _)
load(h, k, n, step) ==
    IF k > n THEN h
    ELSE load(push_or_reprioritize(h, k, 1 + ((((k + 1) \div 2) * step) % MaxPrio)), k + 1, n, step)

\* rounds times: push a new value k, k + 1, ... on top and pop it
RECURSIVE link_rounds(_, _, _)
link_rounds(h, k, rounds) ==
    IF rounds = 0 THEN h
    ELSE LET h1 == push_or_reprioritize(h, k, MaxPrio + 1)
         IN link_rounds(pop(h1, Ascending(h1.other_roots)), k + 1, rounds - 1)

\* the heap after LoadKeys pushes and LoadRounds rounds
LoadedRph(step) == link_rounds(load(EmptyRph, 1, LoadKeys, step), LoadKeys + 1, LoadRounds)

-----------------------------------------------------------------------------
(* UnionFind (union_find.cpp).  The operations take and return the vector  *)
(* uf of UFNodes; those that also return a value give <<uf, value>>.       *)

Indices == 0..(NumIndices - 1)

\* UFNode(index)
UFNode(index) == [rank |-> 0, size |-> 1, head |-> index, children |-> {}]

\* UnionFind(size)
NewUnionFind == [i \in Indices |-> UFNode(i)]

\* the loop `while (uf_nodes[i].head != i)` of find_group; the result is
\* <<path, i>>
RECURSIVE traverse_up(_, _, _)
traverse_up(uf, i, path) ==
    IF uf[i].head # i
    THEN traverse_up(uf, uf[i].head, Append(path, i))
    ELSE <<path, i>>

\* the loop `for (p = 1; p < path.size(); p++)` of find_group; path[p - 1] of
\* the code is path[p] here
RECURSIVE compress_path_keep_child(_, _, _, _)
compress_path_keep_child(uf, path, i, p) ==
    IF p < Len(path) THEN
        LET j == path[p]
            uf1 == [uf EXCEPT ![j].head = i]
            uf2 == [uf1 EXCEPT ![i].children = @ \cup {j}]
        IN compress_path_keep_child(uf2, path, i, p + 1)
    ELSE uf

RECURSIVE compress_path(_, _, _, _)
compress_path(uf, path, i, p) ==
    IF p < Len(path) THEN
        LET j == path[p]
            uf1 == [uf EXCEPT ![j].head = i]
            uf2 == [uf1 EXCEPT ![path[p + 1]].children = @ \ {j}]
            uf3 == [uf2 EXCEPT ![i].children = @ \cup {j}]
        IN compress_path(uf3, path, i, p + 1)
    ELSE uf

find_group_keep_child(uf, i) ==
    LET up == traverse_up(uf, i, <<>>)
    IN <<compress_path_keep_child(uf, up[1], up[2], 1), up[2]>>

\* the compression loop with `uf_nodes[j].head = j`
RECURSIVE compress_path_detach(_, _, _, _)
compress_path_detach(uf, path, i, p) ==
    IF p < Len(path) THEN
        LET j == path[p]
            uf1 == [uf EXCEPT ![j].head = j]
            uf2 == [uf1 EXCEPT ![path[p + 1]].children = @ \ {j}]
        IN compress_path_detach(uf2, path, i, p + 1)
    ELSE uf

find_group_detach(uf, i) ==
    LET up == traverse_up(uf, i, <<>>)
    IN <<compress_path_detach(uf, up[1], up[2], 1), up[2]>>

find_group(uf, i) ==
    LET up == traverse_up(uf, i, <<>>)
    IN <<compress_path(uf, up[1], up[2], 1), up[2]>>

\* the heads merged with each made the head of the other
merge_heads_mutual(uf, head_i, head_j) ==
    IF head_i = head_j THEN uf
    ELSE [uf EXCEPT ![head_j].head = head_i,
                    ![head_i].head = head_j,
                    ![head_i].children = @ \cup {head_j},
                    ![head_j].children = @ \cup {head_i}]

\* the heads merged without the insertion into the children of the new head
merge_heads_no_child(uf, head_i, head_j) ==
    IF head_i = head_j THEN uf
    ELSE IF uf[head_i].rank > uf[head_j].rank THEN
        [uf EXCEPT ![head_j].head = head_i,
                   ![head_i].size = @ + uf[head_j].size]
    ELSE
        LET uf1 == [uf EXCEPT ![head_i].head = head_j,
                              ![head_j].size = @ + uf[head_i].size]
        IN IF uf1[head_j].rank = uf1[head_i].rank
           THEN [uf1 EXCEPT ![head_j].rank = @ + 1]
           ELSE uf1

\* the heads merged with `node_j.rank++` outside its test
merge_heads_rank_always(uf, head_i, head_j) ==
    IF head_i = head_j THEN uf
    ELSE IF uf[head_i].rank > uf[head_j].rank THEN
        [uf EXCEPT ![head_j].head = head_i,
                   ![head_i].children = @ \cup {head_j},
                   ![head_i].size = @ + uf[head_j].size]
    ELSE
        [uf EXCEPT ![head_i].head = head_j,
                   ![head_j].children = @ \cup {head_i},
                   ![head_j].size = @ + uf[head_i].size,
                   ![head_j].rank = @ + 1]

\* the heads merged with the size of the new head counted up by one
merge_heads_size_by_one(uf, head_i, head_j) ==
    IF head_i = head_j THEN uf
    ELSE IF uf[head_i].rank > uf[head_j].rank THEN
        [uf EXCEPT ![head_j].head = head_i,
                   ![head_i].children = @ \cup {head_j},
                   ![head_i].size = @ + 1]
    ELSE
        LET uf1 == [uf EXCEPT ![head_i].head = head_j,
                              ![head_j].children = @ \cup {head_i},
                              ![head_j].size = @ + 1]
        IN IF uf1[head_j].rank = uf1[head_i].rank
           THEN [uf1 EXCEPT ![head_j].rank = @ + 1]
           ELSE uf1

\* the branches of union_groups once the heads are known
merge_heads(uf, head_i, head_j) ==
    IF head_i = head_j THEN uf
    ELSE IF uf[head_i].rank > uf[head_j].rank THEN
        [uf EXCEPT ![head_j].head = head_i,
                   ![head_i].children = @ \cup {head_j},
                   ![head_i].size = @ + uf[head_j].size]
    ELSE
        LET uf1 == [uf EXCEPT ![head_i].head = head_j,
                              ![head_j].children = @ \cup {head_i},
                              ![head_j].size = @ + uf[head_i].size]
        IN IF uf1[head_j].rank = uf1[head_i].rank
           THEN [uf1 EXCEPT ![head_j].rank = @ + 1]
           ELSE uf1

union_groups_no_find(uf, i, j) == merge_heads(uf, i, j)

union_groups(uf, i, j) ==
    LET fi == find_group(uf, i)
        fj == find_group(fi[1], j)
    IN merge_heads(fj[1], fi[2], fj[2])

\* the value group_size(i) returns; its writes are those of find_group(i)
group_size(uf, i) ==
    LET f == find_group(uf, i) IN f[1][f[2]].size

\* the loop `while (!stack.empty())` of group: the vectors it can return, one
\* for each order in which the range-for may visit each unordered_set
RECURSIVE traverse_down(_, _)
traverse_down(uf, stack) ==
    IF Len(stack) = 0 THEN {<<>>}
    ELSE
        LET curr == stack[Len(stack)]
            rest == SubSeq(stack, 1, Len(stack) - 1)
        IN UNION {{<<curr>> \o r : r \in traverse_down(uf, rest \o order)} :
                    order \in Orders(uf[curr].children)}

\* the vectors group(i) can return; its writes are those of find_group(i)
group(uf, i) ==
    LET f == find_group(uf, i) IN traverse_down(f[1], <<f[2]>>)

\* the loop `for (i = 0; i < uf_nodes.size(); i++)` of all_groups; the
\* result is <<uf, to_return>>, to_return[g + 1] being to_return[g] of the code
RECURSIVE fill_groups_by_head(_, _, _)
fill_groups_by_head(uf, to_return, i) ==
    IF i < NumIndices THEN
        fill_groups_by_head(uf, [to_return EXCEPT ![uf[i].head + 1] = Append(@, i)], i + 1)
    ELSE <<uf, to_return>>

RECURSIVE fill_groups(_, _, _)
fill_groups(uf, to_return, i) ==
    IF i < NumIndices THEN
        LET f == find_group(uf, i)
        IN fill_groups(f[1], [to_return EXCEPT ![f[2] + 1] = Append(@, i)], i + 1)
    ELSE <<uf, to_return>>

\* vector<vector<size_t>> to_return(n): n empty vectors
RECURSIVE empty_vectors(_)
empty_vectors(n) == IF n = 0 THEN <<>> ELSE Append(empty_vectors(n - 1), <<>>)

\* std::remove_if of the empty vectors, then resize
RECURSIVE remove_empty(_)
remove_empty(s) ==
    IF Len(s) = 0 THEN <<>>
    ELSE IF Len(Head(s)) = 0 THEN remove_empty(Tail(s))
    ELSE <<Head(s)>> \o remove_empty(Tail(s))

all_groups_by_head(uf) ==
    LET filled == fill_groups_by_head(uf, empty_vectors(NumIndices), 0)
    IN <<filled[1], remove_empty(filled[2])>>

all_groups(uf) ==
    LET filled == fill_groups(uf, empty_vectors(NumIndices), 0)
    IN <<filled[1], remove_empty(filled[2])>>

-----------------------------------------------------------------------------
(* QueueDeleter<Node> shared by the Nodes of ImmutableLists               *)
(* (immutable_list.hpp).  A list Node is named by a number; the queue     *)
(* Node that carries it has the same name, since a list Node is queued    *)
(* once, when its last owner lets go of it.  Each block under a           *)
(* lock_guard is one step: it holds no other synchronisation.             *)

ListNodes == 1..MaxListNodes
Threads == 1..NumThreads

\* QueueDeleter: head and tail start null; next is QueueDeleter::Node::next
NewQueueDeleter ==
    [head |-> NULL, tail |-> NULL, next |-> [n \in ListNodes |-> NULL],
     destroyed |-> FALSE, use_after_free |-> FALSE]

\* a read or write of head, tail or queue_mutex
touch(q) == [q EXCEPT !.use_after_free = @ \/ q.destroyed]

\* queue(), the first locked block: append and tell whether somebody else drains
enqueue(q, to_delete) ==
    LET deleting == (q.tail # NULL)
        added == [touch(q) EXCEPT !.next[to_delete] = NULL]
    IN  [deleting |-> deleting,
         qd |-> IF deleting
                THEN [added EXCEPT !.next[q.tail] = to_delete, !.tail = to_delete]
                ELSE [added EXCEPT !.tail = to_delete, !.head = to_delete]]

\* the pop without `if (tail == delete_node) tail = nullptr`
pop_node_keep_tail(q) ==
    LET delete_node == q.head
    IN  [delete_node |-> delete_node,
         qd |-> IF delete_node = NULL THEN touch(q)
                ELSE [touch(q) EXCEPT !.head = q.next[delete_node]]]

\* queue(), the locked block of the drain loop: pop a node
pop_node(q) ==
    LET delete_node == q.head
    IN  [delete_node |-> delete_node,
         qd |-> IF delete_node = NULL THEN touch(q)
                ELSE [touch(q) EXCEPT !.head = q.next[delete_node],
                                      !.tail = IF q.tail = delete_node THEN NULL ELSE @]]

\* queue(), the end of the drain loop, which never polls again after the
\* node that cleared the queue
after_delete_repoll(queue_clear) == "pop"

after_delete(queue_clear) == IF queue_clear THEN "return" ELSE "pop"

\* a call of queue(to_delete) that has just been entered
NewFrame(to_delete) ==
    [pc |-> "enqueue", to_delete |-> to_delete, delete_node |-> NULL, queue_clear |-> FALSE]

\* the frame a thread is running, and the thread's stack with that frame replaced
TopFrame(t) == threads[t].stack[Len(threads[t].stack)]
WithTop(t, f) == [threads[t].stack EXCEPT ![Len(threads[t].stack)] = f]
Returned(t) == SubSeq(threads[t].stack, 1, Len(threads[t].stack) - 1)
Running(t, pc) == Len(threads[t].stack) > 0 /\ TopFrame(t).pc = pc

\* the frames that are inside the drain loop of queue()
DrainPcs == {"pop", "read_next", "delete_data", "release_next", "delete_node"}
DrainerRunning ==
    \E u \in Threads : \E i \in 1..Len(threads[u].stack) : threads[u].stack[i].pc \in DrainPcs

\* a thread lets go of a list handle; the last owner calls the disposer of create_node
DropHandle(t, n) ==
    /\ Len(threads[t].stack) = 0
    /\ n \in threads[t].handles
    /\ lists' = [lists EXCEPT !.use_count[n] = @ - 1]
    /\ threads' = [threads EXCEPT ![t].handles = @ \ {n},
                                  ![t].stack = IF lists.use_count[n] = 1
                                               THEN <<NewFrame(n)>> ELSE <<>>]
    /\ op' = <<"drop_handle", lists.use_count[n] = 1>>
    /\ UNCHANGED qd
    /\ UNCHANGED qdOthers

Enqueue(t) ==
    /\ Running(t, "enqueue")
    /\ LET r == enqueue(qd, TopFrame(t).to_delete)
       IN  /\ qd' = r.qd
           /\ threads' = [threads EXCEPT ![t].stack =
                            IF r.deleting THEN Returned(t)
                            ELSE WithTop(t, [TopFrame(t) EXCEPT !.pc = "pop"])]
           /\ op' = <<"enqueue", r.deleting, DrainerRunning>>
    /\ UNCHANGED lists
    /\ UNCHANGED qdOthers

PopNode(t) ==
    /\ Running(t, "pop")
    /\ LET r == pop_node(qd)
       IN  /\ qd' = r.qd
           /\ threads' = [threads EXCEPT ![t].stack =
                            IF r.delete_node = NULL THEN Returned(t)
                            ELSE WithTop(t, [TopFrame(t) EXCEPT !.pc = "read_next",
                                                                 !.delete_node = r.delete_node])]
           /\ op' = <<"pop_node", r.delete_node = NULL, FALSE>>
    /\ UNCHANGED lists
    /\ UNCHANGED qdOthers

\* bool queue_clear = (delete_node->next == nullptr), read outside the lock
ReadNext(t) ==
    /\ Running(t, "read_next")
    /\ threads' = [threads EXCEPT ![t].stack =
                     WithTop(t, [TopFrame(t) EXCEPT
                                    !.pc = "delete_data",
                                    !.queue_clear = (qd.next[TopFrame(t).delete_node] = NULL)])]
    /\ op' = <<"read_next", qd.next[TopFrame(t).delete_node] = NULL, FALSE>>
    /\ UNCHANGED <<qd, lists>>
    /\ UNCHANGED qdOthers

\* delete delete_node->data: ~Node destroys its members in reverse order of
\* declaration, first deleter, which may be the last owner of the QueueDeleter
DeleteData(t) ==
    /\ Running(t, "delete_data")
    /\ lists' = [lists EXCEPT !.deleter_use_count = @ - 1]
    /\ qd' = [qd EXCEPT !.destroyed = (lists.deleter_use_count = 1)]
    /\ threads' = [threads EXCEPT ![t].stack =
                     WithTop(t, [TopFrame(t) EXCEPT !.pc = "release_next"])]
    /\ op' = <<"delete_data", lists.deleter_use_count = 1, FALSE>>
    /\ UNCHANGED qdOthers

\* ~Node continued: next, whose last owner calls queue() from inside the delete
ReleaseNext(t) ==
    /\ Running(t, "release_next")
    /\ LET node == TopFrame(t).delete_node
           nxt == lists.next[node]
           last == nxt # NULL /\ lists.use_count[nxt] = 1
           outer == WithTop(t, [TopFrame(t) EXCEPT !.pc = "delete_node"])
       IN  /\ lists' = [lists EXCEPT !.deleted = @ \cup {node},
                                     !.use_count = IF nxt = NULL THEN @
                                                   ELSE [@ EXCEPT ![nxt] = @ - 1]]
           /\ threads' = [threads EXCEPT ![t].stack =
                            IF last THEN Append(outer, NewFrame(nxt)) ELSE outer]
           /\ op' = <<"release_next", last, FALSE>>
    /\ UNCHANGED qd
    /\ UNCHANGED qdOthers

\* delete delete_node; if (queue_clear) return; else go round the loop
DeleteNode(t) ==
    /\ Running(t, "delete_node")
    /\ threads' = [threads EXCEPT ![t].stack =
                     IF after_delete(TopFrame(t).queue_clear) = "return" THEN Returned(t)
                     ELSE WithTop(t, [TopFrame(t) EXCEPT !.pc = "pop"])]
    /\ op' = <<"delete_node", TopFrame(t).queue_clear, qd.destroyed>>
    /\ UNCHANGED <<qd, lists>>
    /\ UNCHANGED qdOthers

-----------------------------------------------------------------------------
(* RangeMinQuery over a sequence A (range_min_query.hpp).  An iterator is  *)
(* its offset from the begin of A, so begin is 0 and end is Len(A); the    *)
(* element at offset k is A[k + 1].  vector index k is index k + 1 here.   *)

Elem(A, k) == A[k + 1]

\* int64_t log_size: tmp is halved while it is above 1
RECURSIVE log_size_of(_)
log_size_of(tmp) == IF tmp > 1 THEN 1 + log_size_of(tmp \div 2) ELSE 0

\* the loop that fills greatest_smaller_power_of_2 and powers_of_2
RECURSIVE power_tables(_, _, _, _, _, _)
power_tables(i, size, power, next_power_of_2, gsp, pows) ==
    IF i >= size THEN [greatest_smaller_power_of_2 |-> gsp, powers_of_2 |-> pows]
    ELSE IF i = next_power_of_2
         THEN power_tables(i + 1, size, power + 1, next_power_of_2 * 2,
                           Append(gsp, power + 1), Append(pows, next_power_of_2))
         ELSE power_tables(i + 1, size, power, next_power_of_2, Append(gsp, power), pows)

\* CartesianTree::Node(iter)
NewTreeNode(iter) == [iter |-> iter, parent |-> NULL, left |-> NULL, right |-> NULL]

\* while (here ? *(new_node->iter) < *(here->iter) : false) here = here->parent
RECURSIVE climb(_, _, _, _)
climb(A, ns, here, v) ==
    IF here # NULL /\ v < Elem(A, ns[here].iter) THEN climb(A, ns, ns[here].parent, v)
    ELSE here

\* the for loop of CartesianTree(begin, end); it starts at begin again, after
\* the root was made from begin
RECURSIVE insert_nodes(_, _, _, _, _, _)
insert_nodes(A, ns, root, prev, iter, end) ==
    IF iter = end THEN [nodes |-> ns, root |-> root, num_nodes |-> 0]
    ELSE LET new_node == Len(ns) + 1
             here == climb(A, ns, prev, Elem(A, iter))
             made == Append(ns, NewTreeNode(iter))
         IN  IF here # NULL
             THEN insert_nodes(A, [made EXCEPT ![new_node].parent = here,
                                               ![new_node].left = ns[here].right,
                                               ![here].right = new_node],
                               root, new_node, iter + 1, end)
             ELSE insert_nodes(A, [made EXCEPT ![new_node].left = root],
                               new_node, new_node, iter + 1, end)

CartesianTree(A, begin, end) ==
    IF begin = end THEN [nodes |-> <<>>, root |-> NULL, num_nodes |-> 0]
    ELSE [insert_nodes(A, <<NewTreeNode(begin)>>, 1, 1, begin, end)
            EXCEPT !.num_nodes = end - begin]

\* bits of int
IntWidth == 32
\* bits of uint64_t
EncodingWidth == 64

\* encoding |= (1 << i): 1 is an int, so bit 31 is the sign bit, which the
\* conversion to uint64_t extends; a shift by IntWidth or more is undefined
shifted_one(i) == IF i < IntWidth - 1 THEN {i} ELSE (IntWidth - 1)..(EncodingWidth - 1)

\* one round of while (!queue.empty()) in bit_encoding: the front of the
\* queue is read and stays where it is
bit_encoding_round(tree, queue, i, encoding) ==
    LET node == Head(queue)
    IN  IF node # NULL
        THEN [queue |-> Append(Append(queue, tree.nodes[node].left), tree.nodes[node].right),
              i |-> i + 1,
              encoding |-> encoding \cup shifted_one(i),
              undefined |-> i >= IntWidth]
        ELSE [queue |-> queue, i |-> i + 1, encoding |-> encoding, undefined |-> FALSE]

\* no RangeMinQuery has been constructed
NoRmq ==
    [pc |-> "none", A |-> <<>>, begin |-> 0, end |-> 0, block_size |-> 0, blocks |-> <<>>,
     greatest_smaller_power_of_2 |-> <<>>, powers_of_2 |-> <<>>,
     cartesian_tree_memos |-> <<>>, power_block_range_memo |-> <<>>,
     block_begin |-> 0,
     tree |-> [nodes |-> <<>>, root |-> NULL, num_nodes |-> 0],
     queue |-> <<>>, i |-> 0, encoding |-> {}]

\* RangeMinQuery(begin, end) up to the loop over the blocks
construct_tables(r) ==
    LET size == r.end - r.begin
        t == power_tables(1, size, 0, 2, IF size > 0 THEN <<0>> ELSE <<>>, <<1>>)
    IN  [r EXCEPT !.pc = "blocks",
                  !.block_size = log_size_of(size) \div 4 + 1,
                  !.greatest_smaller_power_of_2 = t.greatest_smaller_power_of_2,
                  !.powers_of_2 = t.powers_of_2,
                  !.block_begin = r.begin]

\* the head of the loop over the blocks: the Cartesian tree of the next
\* block is built and bit_encoding() is entered; with no block left, the
\* loops that fill power_block_range_memo run over the blocks
next_block(r) ==
    IF r.block_begin < r.end
    THEN LET block_end == IF r.block_begin + r.block_size > r.end THEN r.end
                          ELSE r.block_begin + r.block_size
             tree == CartesianTree(r.A, r.block_begin, block_end)
         IN  [r EXCEPT !.pc = "bit_encoding", !.tree = tree, !.queue = <<tree.root>>,
                       !.i = 0, !.encoding = {}]
    ELSE [r EXCEPT !.pc = IF Len(r.blocks) = 0 THEN "ready" ELSE "memo",
                   !.power_block_range_memo = [b \in 1..Len(r.blocks) |-> <<>>]]

\* assert(range_begin >= begin && range_end <= end && range_begin < range_end)
range_min_assert_no_order(r, range_begin, range_end) ==
    range_begin >= r.begin /\ range_end <= r.end

range_min_assert(r, range_begin, range_end) ==
    range_begin >= r.begin /\ range_end <= r.end /\ range_begin < range_end

\* v[k] is inside the vector v
InBounds(v, k) == k >= 0 /\ k < Len(v)

\* IntervalMemo, which the header declares and never defines: for every
\* 0 <= i < j <= length of the block, the offset of the leftmost minimum of
\* the block between i and j
interval_memo(A, begin, end) ==
    [p \in {q \in (0..(end - begin)) \X (0..(end - begin)) : q[1] < q[2]} |->
        CHOOSE k \in p[1]..(p[2] - 1) :
            /\ \A m \in p[1]..(p[2] - 1) : Elem(A, begin + k) <= Elem(A, begin + m)
            /\ \A m \in p[1]..(k - 1) : Elem(A, begin + k) < Elem(A, begin + m)]

range_min_index(memo, i, j) == memo[<<i, j>>]

\* range_min after its assertion: bad_read tells that a table was indexed
\* outside its bounds, iter is the iterator returned.  The header writes
\* block in the else branch, where no block is declared; it is read as
\* begin_block in the first statement and end_block in the second.
range_min_body(r, range_begin, range_end) ==
    LET begin_block_idx == to_size_t(range_begin - r.begin) \div r.block_size
        end_block_idx == to_size_t(range_end - r.begin - 1) \div r.block_size
        Bad == [bad_read |-> TRUE, iter |-> NULL]
        Memo(b) == r.cartesian_tree_memos[b.cartestian_tree_index + 1]
    IN  IF ~InBounds(r.blocks, begin_block_idx) THEN Bad
        ELSE IF begin_block_idx = end_block_idx
        THEN LET block == r.blocks[begin_block_idx + 1]
             IN  [bad_read |-> FALSE,
                  iter |-> block.begin + range_min_index(Memo(block), range_begin - block.begin,
                                                         range_end - block.begin)]
        ELSE IF ~InBounds(r.blocks, end_block_idx) THEN Bad
        ELSE LET begin_block == r.blocks[begin_block_idx + 1]
                 end_block == r.blocks[end_block_idx + 1]
                 begin_iter == begin_block.begin
                                 + range_min_index(Memo(begin_block),
                                                   range_begin - begin_block.begin,
                                                   begin_block.end - begin_block.begin)
                 end_iter == end_block.begin
                               + range_min_index(Memo(end_block), 0, range_end - end_block.begin)
                 iter == IF Elem(r.A, begin_iter) < Elem(r.A, end_iter) THEN begin_iter
                         ELSE end_iter
             IN  IF begin_block_idx + 1 < end_block_idx
                 THEN IF ~InBounds(r.greatest_smaller_power_of_2,
                                   end_block_idx - begin_block_idx - 1) THEN Bad
                      ELSE LET power_interval ==
                                   r.greatest_smaller_power_of_2[end_block_idx - begin_block_idx]
                               upper_idx == end_block_idx - r.powers_of_2[power_interval + 1]
                           IN  IF \/ ~InBounds(r.power_block_range_memo[begin_block_idx + 2],
                                               power_interval)
                                  \/ ~InBounds(r.power_block_range_memo[upper_idx + 1],
                                               power_interval)
                               THEN Bad
                               ELSE LET lower == r.begin + r.power_block_range_memo
                                                     [begin_block_idx + 2][power_interval + 1]
                                        upper == r.begin + r.power_block_range_memo
                                                     [upper_idx + 1][power_interval + 1]
                                        iter2 == IF Elem(r.A, lower) < Elem(r.A, iter)
                                                 THEN lower ELSE iter
                                    IN  [bad_read |-> FALSE,
                                         iter |-> IF Elem(r.A, upper) < Elem(r.A, iter2)
                                                  THEN lower ELSE iter2]
                 ELSE [bad_read |-> FALSE, iter |-> iter]

\* range_min(range_begin, range_end): the assertion, then the body
range_min(r, range_begin, range_end) ==
    IF ~range_min_assert(r, range_begin, range_end)
    THEN [aborted |-> TRUE, bad_read |-> FALSE, iter |-> NULL]
    ELSE [aborted |-> FALSE] @@ range_min_body(r, range_begin, range_end)

-----------------------------------------------------------------------------
(* SuffixTree (suffix_tree.hpp).  The header declares the tree; the        *)
(* constructor and the two queries are described in the design only, and   *)
(* are modelled from it: the finished tree is the compacted trie of the    *)
(* suffixes of the text followed by the end sentinel, and the queries walk *)
(* it.  A character is a number in 1..AlphabetSize; an index into the text *)
(* counts from 0.                                                          *)

Alphabet == 1..AlphabetSize

\* the null character, which get_char returns at the past-the-last index
Sentinel == 0

Texts == UNION {[1..n -> Alphabet] : n \in 0..MaxTextLen}
Queries == UNION {[1..n -> Alphabet] : n \in 0..MaxQueryLen}

\* get_char without the null character at the past-the-last index
get_char_no_sentinel(text, i) == IF i >= Len(text) THEN 1 ELSE text[i + 1]

\* SuffixTree::get_char
get_char(text, i) == IF i = Len(text) THEN Sentinel ELSE text[i + 1]

\* STNode::length with last taken as exclusive
length_exclusive(node, phase) ==
    IF node.last >= 0 THEN node.last - node.first ELSE phase - node.first

\* STNode::length: last is inclusive, and below 0 it stands for the phase
length(node, phase) ==
    IF node.last >= 0 THEN node.last - node.first + 1 ELSE phase - node.first + 1

\* STNode(first, last), with no children yet
STNode(first, last) ==
    [first |-> first, last |-> last, children |-> [c \in {Sentinel} \cup Alphabet |-> NULL]]

\* the children of a node, or the edges from the root when the node is NULL
ChildrenOf(tree, node) == IF node = NULL THEN tree.root ELSE tree.nodes[node].children

WithChild(tree, node, c, child) ==
    IF node = NULL THEN [tree EXCEPT !.root[c] = child]
    ELSE [tree EXCEPT !.nodes[node].children[c] = child]

\* how many characters from index pos on agree with the edge of the node
\* from index e on
RECURSIVE match_length(_, _, _, _)
match_length(text, node, e, pos) ==
    IF e <= node.last /\ get_char(text, e) = get_char(text, pos)
    THEN 1 + match_length(text, node, e + 1, pos + 1)
    ELSE 0

\* the suffix that starts at pos is added below the node: a new leaf where
\* no edge starts with its character, else down the edge, which is split
\* where the suffix leaves it
RECURSIVE insert_suffix(_, _, _, _)
insert_suffix(text, tree, node, pos) ==
    LET c == get_char(text, pos)
        child == ChildrenOf(tree, node)[c]
        made == Len(tree.nodes) + 1
    IN  IF child = NULL
        THEN WithChild([tree EXCEPT !.nodes = Append(@, STNode(pos, Len(text)))],
                       node, c, made)
        ELSE LET edge == tree.nodes[child]
                 m == match_length(text, edge, edge.first, pos)
             IN  IF m = edge.last - edge.first + 1
                 THEN insert_suffix(text, tree, child, pos + m)
                 ELSE LET internal ==
                              [STNode(edge.first, edge.first + m - 1) EXCEPT
                                  !.children[get_char(text, edge.first + m)] = child,
                                  !.children[get_char(text, pos + m)] = made + 1]
                          leaf == STNode(pos + m, Len(text))
                          split == [tree EXCEPT !.nodes =
                                      Append(Append([@ EXCEPT ![child].first = edge.first + m],
                                                    internal), leaf)]
                      IN  WithChild(split, node, c, made)

RECURSIVE insert_suffixes(_, _, _)
insert_suffixes(text, tree, pos) ==
    IF pos > Len(text) THEN tree
    ELSE insert_suffixes(text, insert_suffix(text, tree, NULL, pos), pos + 1)

\* SuffixTree(begin, end): the tree of every suffix of the text with its sentinel
SuffixTree(text) ==
    [text |-> text,
     tree |-> insert_suffixes(text,
                              [nodes |-> <<>>,
                               root |-> [c \in {Sentinel} \cup Alphabet |-> NULL]], 0)]

\* the walk of longest_overlap: k characters of str are matched, the next
\* character of the tree is at index e of the edge of node, or, with e past
\* that edge, on an edge below node; where that character can be the
\* sentinel, the k characters matched are a suffix of the text
RECURSIVE overlap_walk(_, _, _, _, _, _)
overlap_walk(t, str, node, e, k, best) ==
    IF node # NULL /\ e <= t.tree.nodes[node].last
    THEN IF get_char(t.text, e) = Sentinel THEN k
         ELSE IF k < Len(str) /\ str[k + 1] = get_char(t.text, e)
              THEN overlap_walk(t, str, node, e + 1, k + 1, best)
              ELSE best
    ELSE LET children == ChildrenOf(t.tree, node)
             found == IF children[Sentinel] # NULL THEN k ELSE best
         IN  IF k < Len(str) /\ children[str[k + 1]] # NULL
             THEN overlap_walk(t, str, children[str[k + 1]],
                               t.tree.nodes[children[str[k + 1]]].first, k, found)
             ELSE found

\* SuffixTree::longest_overlap
longest_overlap(t, str) == overlap_walk(t, str, NULL, 0, 0, 0)

\* the suffixes whose leaves are at or below the node, in the order of the
\* characters of the edges; depth characters lead from the root to the
\* edge of the node
RECURSIVE leaf_indices(_, _, _)
RECURSIVE leaves_below(_, _, _, _)
leaf_indices(t, node, depth) ==
    IF \A c \in {Sentinel} \cup Alphabet : t.tree.nodes[node].children[c] = NULL
    THEN <<t.tree.nodes[node].first - depth>>
    ELSE leaves_below(t, node, depth + length(t.tree.nodes[node], Len(t.text)), Sentinel)
leaves_below(t, node, depth, c) ==
    IF c > AlphabetSize THEN <<>>
    ELSE (IF t.tree.nodes[node].children[c] = NULL THEN <<>>
          ELSE leaf_indices(t, t.tree.nodes[node].children[c], depth))
         \o leaves_below(t, node, depth, c + 1)

\* the walk of substring_locations: k characters of str are matched, above
\* of them before the edge of node; the walk fails where str leaves the tree
RECURSIVE locate(_, _, _, _, _, _)
locate(t, str, node, e, k, above) ==
    IF k = Len(str) THEN [found |-> TRUE, node |-> node, above |-> above]
    ELSE IF node # NULL /\ e <= t.tree.nodes[node].last
    THEN IF str[k + 1] = get_char(t.text, e) THEN locate(t, str, node, e + 1, k + 1, above)
         ELSE [found |-> FALSE, node |-> NULL, above |-> 0]
    ELSE LET child == ChildrenOf(t.tree, node)[str[k + 1]]
         IN  IF child = NULL THEN [found |-> FALSE, node |-> NULL, above |-> 0]
             ELSE locate(t, str, child, t.tree.nodes[child].first, k, k)

\* substring_locations that walks the empty string too
substring_locations_all_leaves(t, str) ==
    LET at == locate(t, str, NULL, 0, 0, 0)
    IN  IF ~at.found THEN <<>>
        ELSE IF at.node = NULL THEN leaves_below([t EXCEPT !.tree.nodes =
                                                    Append(@, [STNode(0, -1) EXCEPT !.children = t.tree.root])],
                                                 Len(t.tree.nodes) + 1, 0, Sentinel)
        ELSE leaf_indices(t, at.node, at.above)

\* SuffixTree::substring_locations: the empty string occurs nowhere
substring_locations(t, str) ==
    IF Len(str) = 0 THEN <<>>
    ELSE LET at == locate(t, str, NULL, 0, 0, 0)
         IN  IF at.found THEN leaf_indices(t, at.node, at.above) ELSE <<>>

-----------------------------------------------------------------------------
(* UpdateablePriorityQueue (updateable_priority_queue.hpp) over elements    *)
(* T = pair<priority, identity> with Compare = less<T> and get_identity the *)
(* second member.  The std::priority_queue is the sequence of its elements, *)
(* greatest first; the operations take and return the object u.             *)

UpqIds == 1..MaxUpqId
UpqPrios == 1..MaxUpqPrio
Items == UpqPrios \X UpqIds

\* the identity of an element
get_identity(item) == item[2]

\* Compare: less<pair<priority, identity>>
item_less(a, b) == a[1] < b[1] \/ (a[1] = b[1] /\ a[2] < b[2])

\* priority_queue::push
RECURSIVE pq_push(_, _)
pq_push(queue, item) ==
    IF Len(queue) = 0 THEN <<item>>
    ELSE IF item_less(Head(queue), item) THEN <<item>> \o queue
    ELSE <<Head(queue)>> \o pq_push(Tail(queue), item)

\* priority_queue::top and priority_queue::pop
pq_top(queue) == Head(queue)
pq_pop(queue) == Tail(queue)

\* UpdateablePriorityQueue(get_identity)
NewUpq == [queue |-> <<>>, seen |-> {}]

upq_empty(u) == Len(u.queue) = 0

\* the assertion of top()
top_assert(u) == get_identity(pq_top(u.queue)) \notin u.seen

upq_top(u) == pq_top(u.queue)

\* the loop `while (!empty() && seen.count(get_identity(queue.top())))`
RECURSIVE drop_seen(_)
drop_seen(u) ==
    IF ~upq_empty(u) /\ get_identity(pq_top(u.queue)) \in u.seen
    THEN drop_seen([u EXCEPT !.queue = pq_pop(@)])
    ELSE u

\* pop() without the loop
upq_pop_once(u) ==
    [u EXCEPT !.seen = @ \cup {get_identity(upq_top(u))}, !.queue = pq_pop(@)]

upq_pop(u) ==
    drop_seen([u EXCEPT !.seen = @ \cup {get_identity(upq_top(u))}, !.queue = pq_pop(@)])

upq_push(u, item) ==
    IF get_identity(item) \notin u.seen
    THEN [u EXCEPT !.queue = pq_push(@, item)]
    ELSE u

upq_emplace(u, item) == drop_seen([u EXCEPT !.queue = pq_push(@, item)])

upq_clear(u) == [u EXCEPT !.queue = <<>>, !.seen = {}]

\* the reference: the elements inserted and the identities popped, in
\* order, since the last clear()
NewUpqRef == [inserted |-> {}, popped |-> <<>>]

-----------------------------------------------------------------------------
(* ImmutableList (immutable_list.hpp) as seen by one thread that keeps its  *)
(* lists.  An ImmutableList is its head pointer; the Nodes are on the free  *)
(* store ns, the Node at address a being ns[a], and NULL the null pointer.  *)

ListItems == 1..MaxItem

\* create_node with the next pointer dropped
create_node_unlinked(ns, data, next) ==
    Append(ns, [data |-> data, next |-> NULL, deleter |-> Len(ns) + 1])

\* create_node: the new Node shares the deleter of next, or gets a new one
create_node(ns, data, next) ==
    Append(ns, [data |-> data, next |-> next,
                deleter |-> IF next # NULL THEN ns[next].deleter ELSE Len(ns) + 1])

\* ImmutableList()
EmptyList == NULL

\* ImmutableList(item, rest): the result is <<ns, head>>
ConsList(ns, item, rest) == <<create_node(ns, item, rest), Len(ns) + 1>>

push_front(ns, head, item) == ConsList(ns, item, head)

pop_front(ns, head) == ns[head].next

front(ns, head) == ns[head].data

list_empty(head) == head = NULL

\* operator==
RECURSIVE list_equal(_, _, _)
list_equal(ns, head, other) ==
    IF list_empty(head) THEN list_empty(other)
    ELSE IF list_empty(other) THEN FALSE
    ELSE IF front(ns, head) = front(ns, other)
    THEN list_equal(ns, pop_front(ns, head), pop_front(ns, other))
    ELSE FALSE

\* no Node and no list
NoLists == [nodes |-> <<>>, lists |-> <<>>]

-----------------------------------------------------------------------------
(* The reference of MinMaxHeap: a multiset of values, as a function from value to count. *)

EmptyBag0 == [v \in Vals |-> 0]

RECURSIVE BagOfSeq(_)
BagOfSeq(s) ==
    IF Len(s) = 0 THEN EmptyBag0
    ELSE LET b == BagOfSeq(Tail(s)) IN [b EXCEPT ![Head(s)] = @ + 1]

RECURSIVE SumOver(_, _)
SumOver(f, S) ==
    IF S = {} THEN 0
    ELSE LET x == CHOOSE y \in S : TRUE IN f[x] + SumOver(f, S \ {x})

RefCard(b) == SumOver(b, Vals)
RefMin(b)  == CHOOSE v \in Vals : b[v] > 0 /\ \A w \in Vals : b[w] > 0 => v <= w
RefMax(b)  == CHOOSE v \in Vals : b[v] > 0 /\ \A w \in Vals : b[w] > 0 => v >= w

\* no list has been built and no thread is inside queue()
QdIdle ==
    /\ qd = NewQueueDeleter
    /\ lists = [next |-> [n \in ListNodes |-> NULL], use_count |-> [n \in ListNodes |-> 0],
                deleter_use_count |-> 0, deleted |-> {}]
    /\ threads = [t \in Threads |-> [handles |-> {}, stack |-> <<>>]]

FailIdle == aborted = FALSE /\ bad_read = FALSE

RmqIdle == rmq = NoRmq

StIdle == st = <<>>

UpqIdle == upq = NewUpq /\ upq_ref = NewUpqRef

IlIdle == il = NoLists

UfIdle ==
    /\ uf_nodes = NewUnionFind
    /\ connected = {<<i, i>> : i \in Indices}

RphIdle ==
    /\ nodes = EmptyRph.nodes
    /\ first_root = EmptyRph.first_root
    /\ other_roots = EmptyRph.other_roots
    /\ current_nodes = EmptyRph.current_nodes
    /\ num_items = EmptyRph.num_items
    /\ null_deref = EmptyRph.null_deref
    /\ live = [k \in Keys |-> 0]
    /\ draining = FALSE
    /\ final = [k \in Keys |-> 0]
    /\ drained = <<>>

(* Actions of the heap run side by side with the reference (test_min_max_heap) *)

HeapIdle == values = <<>> /\ vals = EmptyBag0

HeapInit ==
    \E n \in 0..MaxBulk : \E s \in SeqsOfLen(n) :
        /\ values = BulkBuild(s)
        /\ vals = BagOfSeq(s)
        /\ op = <<"construct", Len(s)>>
        /\ RphIdle
        /\ UfIdle
        /\ QdIdle /\ FailIdle /\ RmqIdle /\ StIdle /\ UpqIdle /\ IlIdle

Push(v) ==
    /\ ~aborted /\ ~bad_read
    /\ Len(values) < MaxHeapSize
    /\ values' = push(values, v)
    /\ vals' = [vals EXCEPT ![v] = @ + 1]
    /\ op' = <<"push", v>>
    /\ UNCHANGED <<rphVars, live, drainVars, ufVars, extVars>>

Emplace(v) ==
    /\ ~aborted /\ ~bad_read
    /\ Len(values) < MaxHeapSize
    /\ values' = emplace(values, v)
    /\ vals' = [vals EXCEPT ![v] = @ + 1]
    /\ op' = <<"emplace", v>>
    /\ UNCHANGED <<rphVars, live, drainVars, ufVars, extVars>>

PopMin ==
    /\ ~heap_empty(values)
    /\ values' = pop_min(values)
    /\ vals' = [vals EXCEPT ![RefMin(vals)] = @ - 1]
    /\ op' = <<"pop_min">>
    /\ UNCHANGED <<rphVars, live, drainVars, ufVars, extVars>>

PopMax ==
    /\ ~heap_empty(values)
    /\ values' = pop_max(values)
    /\ vals' = [vals EXCEPT ![RefMax(vals)] = @ - 1]
    /\ op' = <<"pop_max">>
    /\ UNCHANGED <<rphVars, live, drainVars, ufVars, extVars>>

HeapNext ==
    \/ \E v \in Vals : Push(v)
    \/ \E v \in Vals : Emplace(v)
    \/ PopMin
    \/ PopMax

SpecMinMaxHeap == HeapInit /\ [][HeapNext]_vars

(* The heap driven by a caller that does not look at empty() first *)

CheckedCall(name, after) ==
    /\ ~aborted /\ ~bad_read
    /\ LET r == checked_call(values, after)
       IN  /\ aborted' = r.aborted
           /\ bad_read' = r.bad_read
           /\ values' = r.values
    /\ op' = <<name, Len(values)>>
    /\ UNCHANGED <<rphVars, live, drainVars, ufVars, qdVars, rmq, st, upqVars, il>>

MinCall == CheckedCall("min", values) /\ UNCHANGED vals

MaxCall == CheckedCall("max", values) /\ UNCHANGED vals

PopMinCall ==
    /\ CheckedCall("pop_min", pop_min(values))
    /\ vals' = IF Len(values) > 0 THEN [vals EXCEPT ![RefMin(vals)] = @ - 1] ELSE vals

PopMaxCall ==
    /\ CheckedCall("pop_max", pop_max(values))
    /\ vals' = IF Len(values) > 0 THEN [vals EXCEPT ![RefMax(vals)] = @ - 1] ELSE vals

HeapCallsNext ==
    \/ \E v \in Vals : Push(v)
    \/ \E v \in Vals : Emplace(v)
    \/ MinCall
    \/ MaxCall
    \/ PopMinCall
    \/ PopMaxCall

SpecHeapCalls == HeapInit /\ [][HeapCallsNext]_vars

-----------------------------------------------------------------------------
(* RankPairingHeap driven by a caller that pushes and pops in any order,   *)
(* then stops pushing and pops until the heap is empty.  live is the       *)
(* reference: 0 for a value never pushed, -1 for a popped value, else the  *)
(* priority the value has by the documented contract.                      *)

RphState ==
    [nodes |-> nodes, first_root |-> first_root, other_roots |-> other_roots,
     current_nodes |-> current_nodes, num_items |-> num_items,
     null_deref |-> null_deref]

SetRph(h) ==
    /\ nodes' = h.nodes
    /\ first_root' = h.first_root
    /\ other_roots' = h.other_roots
    /\ current_nodes' = h.current_nodes
    /\ num_items' = h.num_items
    /\ null_deref' = h.null_deref

RphInit ==
    /\ RphIdle
    /\ HeapIdle
    /\ UfIdle
    /\ QdIdle /\ FailIdle /\ RmqIdle /\ StIdle /\ UpqIdle /\ IlIdle
    /\ op = <<"construct">>

\* the branch push_or_reprioritize takes for this call
Branch(value, priority) ==
    IF current_nodes[value] = "absent" THEN "new"
    ELSE IF current_nodes[value] = "null" THEN "popped"
    ELSE IF compare(nodes[value].priority, priority) THEN "raised"
    ELSE "kept"

\* Values are interchangeable, so a value never pushed before is named by the
\* least unused key.
PushOrReprioritize(value, priority) ==
    /\ ~null_deref
    /\ ~draining
    /\ \A k \in Keys : k < value => current_nodes[k] # "absent"
    /\ op' = <<"push_or_reprioritize", Branch(value, priority)>>
    /\ live' = [live EXCEPT ![value] =
                    IF @ = 0 THEN priority
                    ELSE IF @ > 0 /\ @ < priority THEN priority
                    ELSE @]
    /\ SetRph(push_or_reprioritize(RphState, value, priority))
    /\ UNCHANGED <<heapVars, drainVars, ufVars, extVars>>

Pop ==
    /\ ~rph_empty(RphState)
    /\ op' = <<"pop">>
    /\ live' = [live EXCEPT ![top(RphState)[1]] = -1]
    /\ drained' = IF draining THEN Append(drained, top(RphState)) ELSE drained
    /\ \E order \in Orders(other_roots) : SetRph(pop(RphState, order))
    /\ UNCHANGED <<heapVars, draining, final, ufVars, extVars>>

StopPushing ==
    /\ ~draining
    /\ draining' = TRUE
    /\ final' = live
    /\ op' = <<"stop_pushing">>
    /\ UNCHANGED <<heapVars, rphVars, live, drained, ufVars, extVars>>

RphNext ==
    \/ \E value \in Pushed, priority \in Prios : PushOrReprioritize(value, priority)
    \/ Pop

SpecRankPairingHeap == RphInit /\ [][RphNext]_vars

RphDrainNext ==
    \/ \E value \in Pushed, priority \in Prios : PushOrReprioritize(value, priority)
    \/ Pop
    \/ StopPushing

SpecRphDrain == RphInit /\ [][RphDrainNext]_vars

(* The heap driven by a caller that does not look at empty() first *)

Top ==
    /\ ~null_deref
    /\ SetRph(top_call(RphState))
    /\ op' = <<"top", rph_empty(RphState)>>
    /\ UNCHANGED <<heapVars, live, drainVars, ufVars, extVars>>

PopOnEmpty ==
    /\ ~null_deref
    /\ rph_empty(RphState)
    /\ SetRph(pop_on_empty(RphState))
    /\ op' = <<"pop", TRUE>>
    /\ UNCHANGED <<heapVars, live, drainVars, ufVars, extVars>>

RphCallsNext ==
    \/ \E value \in Pushed, priority \in Prios : PushOrReprioritize(value, priority)
    \/ Pop
    \/ Top
    \/ PopOnEmpty

SpecRphCalls == RphInit /\ [][RphCallsNext]_vars

(* The loaded heap under a caller that reprioritizes its values in any order *)

LoadedInit ==
    /\ \E step \in 0..1 :
           LET h == LoadedRph(step) IN
           /\ nodes = h.nodes
           /\ first_root = h.first_root
           /\ other_roots = h.other_roots
           /\ current_nodes = h.current_nodes
           /\ num_items = h.num_items
           /\ null_deref = h.null_deref
           /\ live = [k \in Keys |->
                        IF h.current_nodes[k] = "node" THEN h.nodes[k].priority
                        ELSE IF h.current_nodes[k] = "null" THEN -1
                        ELSE 0]
    /\ draining = FALSE
    /\ final = [k \in Keys |-> 0]
    /\ drained = <<>>
    /\ HeapIdle
    /\ UfIdle
    /\ QdIdle /\ FailIdle /\ RmqIdle /\ StIdle /\ UpqIdle /\ IlIdle
    /\ op = <<"construct">>

LoadedNext ==
    \E value \in (LoadKeys - RaisedKeys + 1)..LoadKeys, priority \in Prios : PushOrReprioritize(value, priority)

SpecRphLoaded == LoadedInit /\ [][LoadedNext]_vars

-----------------------------------------------------------------------------
(* UnionFind driven by a caller that mixes unions and queries, beside the  *)
(* reference `connected` (test_union_find_with_random_examples).           *)

UfInit ==
    /\ UfIdle
    /\ RphIdle
    /\ HeapIdle
    /\ QdIdle /\ FailIdle /\ RmqIdle /\ StIdle /\ UpqIdle /\ IlIdle
    /\ op = <<"construct">>

\* the indices joined to i by a path of unions
Component(i) == {j \in Indices : <<i, j>> \in connected}

UnionGroups(i, j) ==
    /\ uf_nodes' = union_groups(uf_nodes, i, j)
    /\ connected' = connected \cup
                      ((Component(i) \cup Component(j)) \X (Component(i) \cup Component(j)))
    /\ op' = <<"union_groups">>
    /\ UNCHANGED <<heapVars, rphVars, live, drainVars, extVars>>

\* find_group(i), group_size(i) or group(i): the last two write only through
\* their call of find_group(i)
Query(i) ==
    /\ uf_nodes' = find_group(uf_nodes, i)[1]
    /\ op' = <<"query">>
    /\ UNCHANGED <<heapVars, rphVars, live, drainVars, connected, extVars>>

AllGroups ==
    /\ uf_nodes' = all_groups(uf_nodes)[1]
    /\ op' = <<"all_groups">>
    /\ UNCHANGED <<heapVars, rphVars, live, drainVars, connected, extVars>>

UfNext ==
    \/ \E i \in Indices, j \in Indices : UnionGroups(i, j)
    \/ \E i \in Indices : Query(i)
    \/ AllGroups

SpecUnionFind == UfInit /\ [][UfNext]_vars

-----------------------------------------------------------------------------
(* QueueDeleter driven by threads that hold handles on ImmutableLists      *)
(* built with create_node and let go of them in any order and at any time. *)

\* the lists built before the handles are dropped: Node 1 is the terminal
\* Node, whose create_node made the QueueDeleter; every later Node was
\* prepended to an earlier one and shares that QueueDeleter
QdInit ==
    /\ \E n \in 1..MaxListNodes :
       \E nx \in [ListNodes -> {NULL} \cup ListNodes] :
       \E hs \in [Threads -> SUBSET (1..n)] :
          LET owners(i) == Cardinality({t \in Threads : i \in hs[t]})
                           + Cardinality({j \in 1..n : nx[j] = i})
          IN  /\ \A i \in ListNodes : nx[i] = NULL <=> (i = 1 \/ i > n)
              /\ \A i \in 2..n : nx[i] < i
              /\ \A i \in 1..n : owners(i) >= 1
              /\ lists = [next |-> nx,
                          use_count |-> [i \in ListNodes |-> IF i <= n THEN owners(i) ELSE 0],
                          deleter_use_count |-> n, deleted |-> {}]
              /\ threads = [t \in Threads |-> [handles |-> hs[t], stack |-> <<>>]]
    /\ qd = NewQueueDeleter
    /\ op = <<"create_node", FALSE, FALSE>>
    /\ HeapIdle /\ RphIdle /\ UfIdle /\ FailIdle /\ RmqIdle /\ StIdle /\ UpqIdle /\ IlIdle

QdNext ==
    \/ \E t \in Threads, n \in ListNodes : DropHandle(t, n)
    \/ \E t \in Threads : Enqueue(t)
    \/ \E t \in Threads : PopNode(t)
    \/ \E t \in Threads : ReadNext(t)
    \/ \E t \in Threads : DeleteData(t)
    \/ \E t \in Threads : ReleaseNext(t)
    \/ \E t \in Threads : DeleteNode(t)

SpecQueueDeleter == QdInit /\ [][QdNext]_vars

\* a thread that is inside queue() keeps running: the locked blocks are
\* short and nothing else holds a thread up
QueueStep(t) ==
    \/ Enqueue(t)
    \/ PopNode(t)
    \/ ReadNext(t)
    \/ DeleteData(t)
    \/ ReleaseNext(t)
    \/ DeleteNode(t)

SpecQueueDeleterFair == SpecQueueDeleter /\ \A t \in Threads : WF_vars(QueueStep(t))

-----------------------------------------------------------------------------
(* RangeMinQuery constructed over a sequence and then queried.             *)

rmqOthers == <<heapVars, rphVars, live, drainVars, ufVars, qdVars, st, upqVars, il>>

RmqInit ==
    /\ \E n \in 0..MaxRmqLen : \E A \in SeqsOfLen(n) :
          rmq = [NoRmq EXCEPT !.pc = "construct", !.A = A, !.begin = 0, !.end = n]
    /\ op = <<"RangeMinQuery">>
    /\ HeapIdle /\ RphIdle /\ UfIdle /\ QdIdle /\ FailIdle /\ StIdle /\ UpqIdle /\ IlIdle

ConstructTables ==
    /\ rmq.pc = "construct"
    /\ rmq' = construct_tables(rmq)
    /\ op' = <<"construct_tables">>
    /\ UNCHANGED <<rmqOthers, failVars>>

NextBlock ==
    /\ rmq.pc = "blocks"
    /\ rmq' = next_block(rmq)
    /\ op' = <<"next_block">>
    /\ UNCHANGED <<rmqOthers, failVars>>

\* a round of the loop of bit_encoding(); after a shift by IntWidth or more
\* the behaviour is undefined, and the loop, whose queue is never popped,
\* has no exit
BitEncodingRound ==
    /\ rmq.pc = "bit_encoding"
    /\ Len(rmq.queue) > 0
    /\ LET b == bit_encoding_round(rmq.tree, rmq.queue, rmq.i, rmq.encoding)
       IN  rmq' = [rmq EXCEPT !.pc = IF b.undefined THEN "undefined" ELSE @,
                              !.queue = b.queue, !.i = b.i, !.encoding = b.encoding]
    /\ op' = <<"bit_encoding">>
    /\ UNCHANGED <<rmqOthers, failVars>>

RangeMin(range_begin, range_end) ==
    /\ rmq.pc = "ready"
    /\ ~aborted /\ ~bad_read
    /\ LET res == range_min(rmq, range_begin, range_end)
       IN  /\ aborted' = res.aborted
           /\ bad_read' = res.bad_read
           /\ op' = <<"range_min", range_begin, range_end, res.iter>>
    /\ UNCHANGED <<rmqOthers, rmq>>

RmqNext ==
    \/ ConstructTables
    \/ NextBlock
    \/ BitEncodingRound
    \/ \E range_begin \in (-1)..(MaxRmqLen + 1), range_end \in (-1)..(MaxRmqLen + 1) :
          RangeMin(range_begin, range_end)

SpecRangeMinQuery == RmqInit /\ [][RmqNext]_vars

-----------------------------------------------------------------------------
(* SuffixTree built over a text and then queried                           *)
(* (test_suffix_tree_with_randomized_examples).  The queries leave the     *)
(* tree as it is, so one query of each tree shows every answer it gives.   *)

stOthers == <<heapVars, rphVars, live, drainVars, ufVars, qdVars, failVars, rmq, upqVars, il>>

StInit ==
    /\ \E text \in Texts : st = SuffixTree(text)
    /\ op = <<"SuffixTree">>
    /\ HeapIdle /\ RphIdle /\ UfIdle /\ QdIdle /\ FailIdle /\ RmqIdle /\ UpqIdle /\ IlIdle

LongestOverlap(str) ==
    /\ op = <<"SuffixTree">>
    /\ op' = <<"longest_overlap", str, longest_overlap(st, str)>>
    /\ UNCHANGED <<stOthers, st>>

SubstringLocations(str) ==
    /\ op = <<"SuffixTree">>
    /\ op' = <<"substring_locations", str, substring_locations(st, str)>>
    /\ UNCHANGED <<stOthers, st>>

StNext ==
    \/ \E str \in Queries : LongestOverlap(str)
    \/ \E str \in Queries : SubstringLocations(str)

SpecSuffixTree == StInit /\ [][StNext]_vars

-----------------------------------------------------------------------------
(* UpdateablePriorityQueue driven by a caller that pushes, emplaces, reads  *)
(* the top, pops and clears in any order, and calls top() and pop() only    *)
(* when empty() is false.                                                   *)

upqOthers == <<heapVars, rphVars, live, drainVars, ufVars, qdVars, bad_read, rmq, st, il>>

UpqInit ==
    /\ UpqIdle
    /\ HeapIdle /\ RphIdle /\ UfIdle /\ QdIdle /\ FailIdle /\ RmqIdle /\ StIdle /\ IlIdle
    /\ op = <<"construct">>

UpqPush(item) ==
    /\ ~aborted
    /\ Len(upq.queue) < MaxQueueLen
    /\ upq' = upq_push(upq, item)
    /\ upq_ref' = [upq_ref EXCEPT !.inserted = @ \cup {item}]
    /\ op' = <<"push", item>>
    /\ UNCHANGED <<upqOthers, aborted>>

UpqEmplace(item) ==
    /\ ~aborted
    /\ Len(upq.queue) < MaxQueueLen
    /\ upq' = upq_emplace(upq, item)
    /\ upq_ref' = [upq_ref EXCEPT !.inserted = @ \cup {item}]
    /\ op' = <<"emplace", item>>
    /\ UNCHANGED <<upqOthers, aborted>>

UpqTop ==
    /\ ~aborted
    /\ ~upq_empty(upq)
    /\ aborted' = ~top_assert(upq)
    /\ op' = <<"top", upq_top(upq)>>
    /\ UNCHANGED <<upqOthers, upqVars>>

UpqPop ==
    /\ ~aborted
    /\ ~upq_empty(upq)
    /\ aborted' = ~top_assert(upq)
    /\ upq' = IF top_assert(upq) THEN upq_pop(upq) ELSE upq
    /\ upq_ref' = IF top_assert(upq)
                  THEN [upq_ref EXCEPT !.popped = Append(@, get_identity(upq_top(upq)))]
                  ELSE upq_ref
    /\ op' = <<"pop", upq_top(upq)>>
    /\ UNCHANGED upqOthers

UpqClear ==
    /\ ~aborted
    /\ upq' = upq_clear(upq)
    /\ upq_ref' = NewUpqRef
    /\ op' = <<"clear">>
    /\ UNCHANGED <<upqOthers, aborted>>

UpqNext ==
    \/ \E item \in Items : UpqPush(item)
    \/ \E item \in Items : UpqEmplace(item)
    \/ UpqTop
    \/ UpqPop
    \/ UpqClear

SpecUpdateablePriorityQueue == UpqInit /\ [][UpqNext]_vars

-----------------------------------------------------------------------------
(* ImmutableLists built by one thread from the empty list by push_front and *)
(* pop_front on the lists it already has.                                   *)

ilOthers == <<heapVars, rphVars, live, drainVars, ufVars, qdVars, failVars, rmq, st, upqVars>>

IlInit ==
    /\ IlIdle
    /\ HeapIdle /\ RphIdle /\ UfIdle /\ QdIdle /\ FailIdle /\ RmqIdle /\ StIdle /\ UpqIdle
    /\ op = <<"construct">>

NewList ==
    /\ Len(il.lists) < MaxLists
    /\ il' = [il EXCEPT !.lists = Append(@, EmptyList)]
    /\ op' = <<"ImmutableList">>
    /\ UNCHANGED ilOthers

PushFront(l, item) ==
    /\ l \in 1..Len(il.lists)
    /\ Len(il.lists) < MaxLists
    /\ Len(il.nodes) < MaxIlNodes
    /\ LET r == push_front(il.nodes, il.lists[l], item)
       IN il' = [nodes |-> r[1], lists |-> Append(il.lists, r[2])]
    /\ op' = <<"push_front", l, item>>
    /\ UNCHANGED ilOthers

PopFront(l) ==
    /\ l \in 1..Len(il.lists)
    /\ Len(il.lists) < MaxLists
    /\ ~list_empty(il.lists[l])
    /\ il' = [il EXCEPT !.lists = Append(@, pop_front(il.nodes, il.lists[l]))]
    /\ op' = <<"pop_front", l>>
    /\ UNCHANGED ilOthers

IlNext ==
    \/ NewList
    \/ \E l \in 1..MaxLists, item \in ListItems : PushFront(l, item)
    \/ \E l \in 1..MaxLists : PopFront(l)

SpecImmutableList == IlInit /\ [][IlNext]_vars

-----------------------------------------------------------------------------
(* Claims about MinMaxHeap *)

\* depth of index i in the implicit tree: 0 for the root, 1 for indices 1..2, ...
RECURSIVE DepthOf(_)
DepthOf(i) == IF i = 0 THEN 0 ELSE 1 + DepthOf(((i + 1) \div 2) - 1)

\* d is a proper descendant of i, the children of i being 2i+1 and 2i+2
RECURSIVE IsDescendant(_, _)
IsDescendant(d, i) ==
    IF d <= i THEN FALSE
    ELSE LET parent == ((d + 1) \div 2) - 1
         IN parent = i \/ IsDescendant(parent, i)

\* C1: the heap agrees with the reference multiset: size() is the number of
\* reference elements and, when non-empty, min() and max() are the reference
\* minimum and maximum.
C1_HeapMatchesReference ==
    /\ heap_size(values) = RefCard(vals)
    /\ heap_empty(values) <=> (RefCard(vals) = 0)
    /\ ~heap_empty(values) =>
          /\ heap_min(values) = RefMin(vals)
          /\ heap_max(values) = RefMax(vals)

\* a pop_max has just run on a heap with grandchildren, left it with duplicates
\* and all values present
C1_Witness ==
    /\ op = <<"pop_max">>
    /\ Len(values) >= 7
    /\ \A v \in Vals : vals[v] >= 2
    /\ heap_max(values) = MaxVal

\* C2: every index on a min level is <= all its descendants, every index on a
\* max level is >= all its descendants.
C2_ArrayInvariant ==
    \A i \in 0..(Len(values) - 1) : \A d \in 0..(Len(values) - 1) :
        IsDescendant(d, i) =>
            IF DepthOf(i) % 2 = 0
            THEN At(values, i) <= At(values, d)
            ELSE At(values, i) >= At(values, d)

\* a pop_min has just run and left a heap with great-grandchildren holding
\* every value
C2_Witness ==
    /\ op = <<"pop_min">>
    /\ Len(values) >= 8
    /\ \A v \in Vals : vals[v] >= 1

-----------------------------------------------------------------------------
(* Claims about RankPairingHeap *)

\* the values that have a Node: pushed and not yet popped
LiveKeys == {k \in Keys : current_nodes[k] = "node"}

\* NEW, LIVE or POPPED, read off the value-to-node map
ValueState(cn, k) ==
    IF cn[k] = "absent" THEN "NEW" ELSE IF cn[k] = "node" THEN "LIVE" ELSE "POPPED"

NonIncreasing(s) ==
    \A i \in 1..(Len(s) - 1) : ~compare(s[i][2], s[i + 1][2])

C5_PushOrReprioritize ==
    [][\A value \in Keys, priority \in Prios :
          PushOrReprioritize(value, priority) =>
              /\ current_nodes[value] = "node" =>
                    /\ nodes'[value].priority =
                          (IF compare(nodes[value].priority, priority)
                           THEN priority ELSE nodes[value].priority)
                    /\ \A k \in LiveKeys \ {value} :
                          nodes'[k].priority = nodes[k].priority
                    /\ current_nodes' = current_nodes
                    /\ num_items' = num_items
              /\ current_nodes[value] = "absent" =>
                    /\ current_nodes'[value] = "node"
                    /\ nodes'[value].priority = priority
                    /\ \A k \in LiveKeys : nodes'[k].priority = nodes[k].priority
                    /\ num_items' = num_items + 1]_vars

\* a live value below its parent has just been given a higher priority while
\* other values were live
C5_Witness ==
    /\ op = <<"push_or_reprioritize", "raised">>
    /\ Cardinality(LiveKeys) >= 3
    /\ \E k \in LiveKeys : nodes[k].left # NULL /\ k # first_root

\* C6: push_or_reprioritize of a live value with a priority that is not
\* greater than its current one changes nothing in the heap.
C6_DownwardIsNoOp ==
    [][\A value \in Keys, priority \in Prios :
          (/\ PushOrReprioritize(value, priority)
           /\ current_nodes[value] = "node"
           /\ ~compare(nodes[value].priority, priority))
          => UNCHANGED rphVars]_vars

\* a call that kept the priority has just run on a heap holding a linked tree
C6_Witness ==
    /\ op = <<"push_or_reprioritize", "kept">>
    /\ \E k \in LiveKeys : nodes[k].parent # NULL
    /\ \E k \in LiveKeys : nodes[k].priority = MaxPrio
    /\ \E k \in LiveKeys : nodes[k].priority < MaxPrio

\* C7: a value moves only NEW -> LIVE (by its first push), LIVE -> LIVE and
\* LIVE -> POPPED (by the pop that has it on top); POPPED is absorbing: a
\* push_or_reprioritize of a popped value dereferences no null node and
\* changes nothing, and top() never returns a popped value.
C7_ValueStateMachine ==
    [][/\ \A k \in Keys :
            LET before == ValueState(current_nodes, k)
                after  == ValueState(current_nodes', k)
            IN
            /\ before = "NEW" => after \in {"NEW", "LIVE"}
            /\ before = "LIVE" => after \in {"LIVE", "POPPED"}
            /\ before = "POPPED" => after = "POPPED"
            /\ (before = "NEW" /\ after = "LIVE") =>
                  \E priority \in Prios : PushOrReprioritize(k, priority)
            /\ (before = "LIVE" /\ after = "POPPED") => Pop /\ first_root = k
       /\ \A value \in Keys, priority \in Prios :
            (PushOrReprioritize(value, priority) /\ current_nodes[value] = "null")
            => UNCHANGED rphVars
       /\ ~null_deref'
       /\ first_root' # NULL => current_nodes'[first_root'] = "node"]_vars

\* a popped value has just been pushed again while other values are live
C7_Witness ==
    /\ op = <<"push_or_reprioritize", "popped">>
    /\ \E k \in Keys : current_nodes[k] = "null"
    /\ Cardinality(LiveKeys) >= 2
    /\ ~null_deref

-----------------------------------------------------------------------------
(* Claims about UnionFind *)

SeqRange(s) == {s[k] : k \in 1..Len(s)}

NoRepeats(s) == \A k, l \in 1..Len(s) : s[k] = s[l] => k = l

\* C8: find_group(i) == find_group(j) exactly when i and j are joined by a
\* path of unions; on a fresh structure every index is its own group.
C8_Connectivity ==
    \A i \in Indices, j \in Indices :
        LET fi == find_group(uf_nodes, i)
            fj == find_group(fi[1], j)
        IN (fi[2] = fj[2]) <=> (<<i, j>> \in connected)

\* a union has just left a group of four and a group of one, the group of
\* four holding an index two steps from its head
C8_Witness ==
    /\ op = <<"union_groups">>
    /\ \E i \in Indices : Cardinality(Component(i)) >= 4
    /\ \E i \in Indices : Cardinality(Component(i)) = 1
    /\ \E i \in Indices : uf_nodes[uf_nodes[i].head].head # uf_nodes[i].head

\* C9: group(i) returns exactly the indices connected to i, each once, and
\* group_size(i) is the length of group(i).
C9_GroupEnumeration ==
    \A i \in Indices :
        LET size == group_size(uf_nodes, i)
            members == Component(i)
        IN \A g \in group(uf_nodes, i) :
              /\ SeqRange(g) = members
              /\ NoRepeats(g)
              /\ size = Len(g)

\* a query has just compressed a path in a group of four
C9_Witness ==
    /\ op = <<"query">>
    /\ \E i \in Indices :
          /\ Cardinality(Component(i)) >= 4
          /\ uf_nodes[i].head # i
          /\ uf_nodes[i].rank >= 1
          /\ uf_nodes[i].children = {}

\* C10: the vectors all_groups() returns are non-empty, hold every index
\* exactly once, join two indices exactly when they are connected, and each
\* equals group(i) as a set for each of its members i.
C10_AllGroups ==
    LET r == all_groups(uf_nodes)
        groups == r[2]
    IN
    /\ \A g \in 1..Len(groups) : Len(groups[g]) > 0 /\ NoRepeats(groups[g])
    /\ \A i \in Indices : \E g \in 1..Len(groups) :
          /\ i \in SeqRange(groups[g])
          /\ \A g2 \in 1..Len(groups) : i \in SeqRange(groups[g2]) => g2 = g
    /\ \A i \in Indices, j \in Indices :
          (\E g \in 1..Len(groups) : {i, j} \subseteq SeqRange(groups[g]))
              <=> (<<i, j>> \in connected)
    /\ \A g \in 1..Len(groups) :
          LET members == SeqRange(groups[g])
          IN \A i \in members : \A v \in group(r[1], i) : SeqRange(v) = members

\* an all_groups has just run over two groups, one of them of four indices
\* that had an index two steps from its head
C10_Witness ==
    /\ op = <<"all_groups">>
    /\ Len(all_groups(uf_nodes)[2]) = 2
    /\ \E i \in Indices : Cardinality(Component(i)) = 4
    /\ \E i \in Indices : uf_nodes[i].rank = 2

-----------------------------------------------------------------------------
(* Claims about QueueDeleter *)

\* C11: when a queue() call appends its item, either a drainer is already
\* running and the call returns, leaving the item to it, or no drainer is
\* running and the caller becomes the drainer.
C11_EnqueueContract ==
    op[1] = "enqueue" => (op[2] <=> op[3])

\* C12: a queue() call made from inside a delete of the drain loop only
\* appends its node and returns; it never pops or deletes itself, so no
\* thread has more than the outer drain frame and one nested call.
C12_NoRecursiveDrain ==
    \A t \in Threads :
        /\ Len(threads[t].stack) <= 2
        /\ \A i \in 2..Len(threads[t].stack) : threads[t].stack[i].pc = "enqueue"

\* C13: a drainer that has deleted the item that cleared the queue returns
\* without a read or write of head, tail or queue_mutex, and no member of a
\* destroyed QueueDeleter is ever touched.
C13_NoTouchAfterLastDelete ==
    [][/\ \A t \in Threads :
            (Running(t, "delete_node") /\ TopFrame(t).queue_clear /\ threads'[t] # threads[t])
                => (threads'[t].stack = Returned(t) /\ qd' = qd)
       /\ ~qd'.use_after_free]_vars

\* a drainer returns after its last deletion destroyed the QueueDeleter,
\* while another thread is still inside queue()
C13_Witness ==
    /\ op = <<"delete_node", TRUE, TRUE>>
    /\ qd.destroyed
    /\ \E t \in Threads : Len(threads[t].stack) > 0

-----------------------------------------------------------------------------
(* Claims about RangeMinQuery *)

\* the least element of A at the offsets lo .. hi - 1
RangeMinimum(A, lo, hi) ==
    CHOOSE v \in {Elem(A, k) : k \in lo..(hi - 1)} :
        \A k \in lo..(hi - 1) : v <= Elem(A, k)

\* C14: a RangeMinQuery constructed over a sequence A of length n >= 1
\* answers range_min(lo, hi), for 0 <= lo < hi <= n, with a position r,
\* lo <= r < hi, where A[r] is the minimum of A[lo..hi): the construction
\* runs into no undefined behaviour and every such call returns such an r.
C14_RangeMinCorrect ==
    /\ rmq.pc # "undefined"
    /\ (op[1] = "range_min" /\ 0 <= op[2] /\ op[2] < op[3] /\ op[3] <= Len(rmq.A))
          => /\ ~aborted /\ ~bad_read
             /\ op[2] <= op[4] /\ op[4] < op[3]
             /\ Elem(rmq.A, op[4]) = RangeMinimum(rmq.A, op[2], op[3])

-----------------------------------------------------------------------------
(* Claims about SuffixTree *)

\* the first k characters of str are the last k characters of text
IsOverlap(text, str, k) ==
    /\ k <= Len(text) /\ k <= Len(str)
    /\ \A j \in 1..k : str[j] = text[Len(text) - k + j]

\* the indices at which str occurs in text
Occurrences(text, str) ==
    {i \in 0..(Len(text) - Len(str)) : \A j \in 1..Len(str) : text[i + j] = str[j]}

-----------------------------------------------------------------------------
(* Claims about calls on empty containers *)

\* C18: min(), max(), pop_min() and pop_max() end in an assertion failure
\* exactly when the heap is empty; then nothing was read or removed, and
\* no call reads outside the array.
C18_HeapEmptyPrecondition ==
    [][op'[1] \in {"min", "max", "pop_min", "pop_max"} =>
          /\ aborted' <=> (Len(values) = 0)
          /\ aborted' => (values' = values /\ vals' = vals)
          /\ ~bad_read']_vars

\* pop_max() has failed its assertion on an empty heap
C18_Witness ==
    /\ aborted
    /\ op = <<"pop_max", 0>>
    /\ Len(values) = 0

\* C19: top() or pop() on a RankPairingHeap without live values ends in an
\* abort, with size() and the map of values as they were and without a read
\* through the null first_root.
C19_RphEmptyPrecondition ==
    (op[1] \in {"top", "pop"} /\ Len(op) = 2 /\ op[2]) =>
        /\ aborted
        /\ ~null_deref
        /\ num_items = 0

-----------------------------------------------------------------------------
(* Claims about the shape of the half trees of RankPairingHeap *)

\* the rank of a child, a missing child counting as rank -1
ChildRank(child) == IF child = NULL THEN -1 ELSE nodes[child].rank

\* the node is a (1,1)-node, a (1,2)-node or a (0,i)-node
Type2Node(k) ==
    LET dl == nodes[k].rank - ChildRank(nodes[k].left)
        dr == nodes[k].rank - ChildRank(nodes[k].right)
    IN \/ dl = 1 /\ dr = 1
       \/ dl = 1 /\ dr = 2
       \/ dl = 2 /\ dr = 1
       \/ dl = 0 /\ dr >= 0
       \/ dr = 0 /\ dl >= 0

\* C21: every Node that is not a root and has a child is a (1,1)-node, a
\* (1,2)-node or a (0,i)-node with i >= 0, a missing child counting as
\* rank -1.
C21_Type2RankRule ==
    \A k \in LiveKeys :
        (nodes[k].parent # NULL /\ (nodes[k].left # NULL \/ nodes[k].right # NULL))
            => Type2Node(k)

\* C29: a Node's priority is never ranked strictly below the priority of its
\* left child; right edges carry no such constraint.
C29_HalfTreeOrder ==
    \A k \in LiveKeys :
        nodes[k].left # NULL => ~compare(nodes[k].priority, nodes[nodes[k].left].priority)

\* after a cut some Node of the linked half trees has a left child and a
\* right child of a greater priority
C29_Witness ==
    /\ op = <<"push_or_reprioritize", "raised">>
    /\ \E k \in LiveKeys :
           /\ nodes[k].left # NULL
           /\ nodes[k].right # NULL
           /\ compare(nodes[k].priority, nodes[nodes[k].right].priority)

\* the rank the rule gives a Node of the tree ns: the rank of its only child
\* plus one, else the greater rank of its children, plus one where the two
\* differ by at most one
RecomputedRank(ns, k) ==
    LET lr == IF ns[k].left = NULL THEN -1 ELSE ns[ns[k].left].rank
        rr == IF ns[k].right = NULL THEN -1 ELSE ns[ns[k].right].rank
    IN IF ns[k].left = NULL /\ ns[k].right # NULL THEN rr + 1
       ELSE IF ns[k].right = NULL /\ ns[k].left # NULL THEN lr + 1
       ELSE IF Max2(lr, rr) - Min2(lr, rr) <= 1 THEN Max2(lr, rr) + 1
       ELSE Max2(lr, rr)

\* the walk up from the ancestor k that stops at the first ancestor whose
\* recomputed rank is not less than its stored rank
RECURSIVE StoppingWalk(_, _)
StoppingWalk(ns, k) ==
    IF k = NULL THEN ns
    ELSE IF RecomputedRank(ns, k) >= ns[k].rank THEN ns
    ELSE StoppingWalk([ns EXCEPT ![k].rank = RecomputedRank(ns, k)], ns[k].parent)

\* the value whose Node a step has cut from its parent
CutBy(value) ==
    /\ op' = <<"push_or_reprioritize", "raised">>
    /\ current_nodes[value] = "node"
    /\ nodes[value].parent # NULL
    /\ nodes'[value].parent = NULL

\* C30: after a cut the ranks are those of the walk up from the former
\* parent that recomputes each rank by the rule and stops at the first
\* ancestor whose recomputed rank is not less than its stored rank; that
\* ancestor and the ancestors above it keep their ranks.
C30_RankRestoration ==
    [][\A value \in Keys :
          CutBy(value) =>
              LET cut == [k \in Keys |-> [nodes'[k] EXCEPT !.rank = nodes[k].rank]]
                  walked == StoppingWalk(cut, nodes[value].parent)
              IN \A k \in Keys : nodes'[k].rank = walked[k].rank]_vars

-----------------------------------------------------------------------------
(* Claims about the parent graph of UnionFind *)

\* following head pointers from i, never through an index of seen, ends at
\* an index that is its own head
RECURSIVE ReachesHead(_, _)
ReachesHead(i, seen) ==
    IF uf_nodes[i].head = i THEN TRUE
    ELSE IF uf_nodes[i].head \in seen THEN FALSE
    ELSE ReachesHead(uf_nodes[i].head, seen \cup {uf_nodes[i].head})

\* C22: the parent graph is a forest: following head pointers from any index
\* reaches, without revisiting an index, a node whose head is itself.
C22_ParentForest ==
    \A i \in Indices : ReachesHead(i, {i})

\* a union has just put a head of rank 1 below another, so that an index is
\* two steps from its head, and another group is left
C22_Witness ==
    /\ op = <<"union_groups">>
    /\ \E i \in Indices :
          LET h1 == uf_nodes[i].head
              h2 == uf_nodes[h1].head
          IN h1 # i /\ h2 # h1 /\ uf_nodes[h2].head = h2 /\ uf_nodes[h2].rank = 2
    /\ \E i \in Indices : uf_nodes[i].head = i /\ uf_nodes[i].rank = 0

\* C23: j is in the children set of p exactly when the head of j is p, for
\* all p and j other than p, after every union and every find with its
\* path compression.
C23_ChildSets ==
    \A p \in Indices : \A j \in Indices \ {p} :
        j \in uf_nodes[p].children <=> uf_nodes[j].head = p

\* a find has just moved an index from the children of its old parent to
\* those of the head
C23_Witness ==
    /\ op = <<"query">>
    /\ \E j \in Indices, old \in Indices :
          /\ uf_nodes[j].head # j
          /\ uf_nodes[j].head # old
          /\ j \in uf_nodes[uf_nodes[j].head].children
          /\ uf_nodes[old].head = uf_nodes[j].head
          /\ old # uf_nodes[j].head
          /\ uf_nodes[old].rank >= 1
          /\ uf_nodes[old].children = {}

-----------------------------------------------------------------------------
(* Claims about UpdateablePriorityQueue *)

\* the elements inserted since the last clear() whose identity has not been
\* popped since
Pending ==
    {e \in upq_ref.inserted :
        \A i \in 1..Len(upq_ref.popped) : upq_ref.popped[i] # get_identity(e)}

\* C24: whenever empty() is false, top() is the greatest element under
\* Compare among the elements inserted since the last clear() whose identity
\* has not been popped since; its identity is not in seen, so the assertion
\* of top() never fails; and no identity is popped twice between clears.
C24_TopIsGreatestPending ==
    /\ ~aborted
    /\ NoRepeats(upq_ref.popped)
    /\ ~upq_empty(upq) =>
          /\ upq_top(upq) \in Pending
          /\ \A e \in Pending : ~item_less(upq_top(upq), e)
          /\ get_identity(upq_top(upq)) \notin upq.seen

\* a pop has just cleaned a stale copy of a popped identity off the top and
\* left an element of another identity there
C24_Witness ==
    /\ op[1] = "pop"
    /\ Len(upq_ref.popped) = 1
    /\ ~upq_empty(upq)
    /\ \E e \in upq_ref.inserted :
          /\ get_identity(e) = upq_ref.popped[1]
          /\ e # op[2]
          /\ item_less(upq_top(upq), e)

-----------------------------------------------------------------------------
(* Claims about ImmutableList *)

\* the items seen by an iteration from head
RECURSIVE Contents(_, _)
Contents(ns, head) ==
    IF head = NULL THEN <<>> ELSE <<ns[head].data>> \o Contents(ns, ns[head].next)

\* the list the last step has made
Made(ls) == ls[Len(ls)]

\* C25: l.push_front(x).front() == x and l.push_front(x).pop_front() == l;
\* push_front and pop_front leave the contents seen through every list that
\* exists as they were; the default-constructed list is empty() and a list
\* made by push_front is not.
C25_Persistence ==
    [][/\ op'[1] = "push_front" =>
            /\ front(il'.nodes, Made(il'.lists)) = op'[3]
            /\ list_equal(il'.nodes, pop_front(il'.nodes, Made(il'.lists)), il.lists[op'[2]])
            /\ Contents(il'.nodes, pop_front(il'.nodes, Made(il'.lists)))
                   = Contents(il.nodes, il.lists[op'[2]])
            /\ ~list_empty(Made(il'.lists))
       /\ op'[1] \in {"push_front", "pop_front"} =>
            \A l \in 1..Len(il.lists) :
                /\ il'.lists[l] = il.lists[l]
                /\ Contents(il'.nodes, il'.lists[l]) = Contents(il.nodes, il.lists[l])
       /\ op'[1] = "ImmutableList" => list_empty(Made(il'.lists))]_vars

\* a push_front has just made a second list on a Node that another list of
\* two Nodes shares
C25_Witness ==
    /\ op[1] = "push_front"
    /\ Len(il.nodes) = 3
    /\ \E a \in 1..Len(il.lists) :
          /\ il.lists[a] # NULL
          /\ il.lists[a] # Made(il.lists)
          /\ il.nodes[il.lists[a]].next # NULL
          /\ il.nodes[il.lists[a]].next = il.nodes[Made(il.lists)].next
          /\ il.nodes[il.lists[a]].data # il.nodes[Made(il.lists)].data

-----------------------------------------------------------------------------
(* Claims about MinMaxHeap::pop_min, pop_max and cmp *)

\* the least and the greatest value stored in the array a
LeastOf(a) == CHOOSE v \in SeqRange(a) : \A w \in SeqRange(a) : v <= w
GreatestOf(a) == CHOOSE v \in SeqRange(a) : \A w \in SeqRange(a) : v >= w

\* the multiset b less one copy of v
LessOne(b, v) == [b EXCEPT ![v] = @ - 1]

\* C26: pop_min on a non-empty heap removes exactly one occurrence of the
\* minimum: the multiset of stored values afterwards is the multiset before
\* less one copy of the minimum, and size() is one less, whatever the size
\* and also when the minimum is stored more than once.
C26_PopMinRemovesOneMinimum ==
    [][op' = <<"pop_min">> =>
          /\ BagOfSeq(values') = LessOne(BagOfSeq(values), LeastOf(values))
          /\ heap_size(values') = heap_size(values) - 1]_vars

\* pop_min has just left two values, both the least value there is: the heap
\* had three values and its minimum was stored more than once
C26_Witness ==
    /\ op = <<"pop_min">>
    /\ heap_size(values) = 2
    /\ \A i \in 0..1 : \A v \in Vals : At(values, i) <= v

\* C27: pop_max on a non-empty heap removes exactly one occurrence of the
\* maximum: with size <= 2 the array loses its last element, which is the
\* maximum; with size >= 3 the value removed is the larger of values[1] and
\* values[2], which is the maximum; the multiset afterwards is the multiset
\* before less one copy of the maximum and size() is one less.
C27_PopMaxRemovesOneMaximum ==
    [][op' = <<"pop_max">> =>
          LET n == heap_size(values)
              removed == IF n <= 2 THEN At(values, n - 1)
                         ELSE IF At(values, 1) >= At(values, 2) THEN At(values, 1)
                         ELSE At(values, 2)
          IN  /\ removed = GreatestOf(values)
              /\ n <= 2 => values' = PopBack(values)
              /\ BagOfSeq(values') = LessOne(BagOfSeq(values), removed)
              /\ heap_size(values') = n - 1]_vars

\* pop_max has just left three values or more whose maximum is the greatest
\* value there is: the maximum removed was stored more than once
C27_Witness ==
    /\ op = <<"pop_max">>
    /\ heap_size(values) >= 3
    /\ \A v \in Vals : heap_max(values) >= v

\* the levels of a heap of the size of a
Levels(a) == 0..Len(a)

\* C28 as stated: on even (min) levels cmp(a, b, level) is true iff a <= b
\* and on odd (max) levels iff a >= b, for all pairs of stored values, equal
\* ones included.
C28_CmpNonStrict ==
    \A a, b \in SeqRange(values) : \A level \in Levels(values) :
        cmp(a, b, level) <=> (IF level % 2 = 0 THEN a <= b ELSE a >= b)

\* C28 amended: on even (min) levels cmp(a, b, level) is true iff a <= b and
\* on odd (max) levels iff a > b; of two equal values it is true on the even
\* levels and false on the odd ones.
C28_CmpStrictOnMax ==
    \A a, b \in SeqRange(values) : \A level \in Levels(values) :
        cmp(a, b, level) <=> (IF level % 2 = 0 THEN a <= b ELSE a > b)

\* the heap holds two equal values and two different ones, on levels 0 to 2
C28_Witness ==
    /\ Len(values) >= 4
    /\ \E i, j \in 0..(Len(values) - 1) : i # j /\ At(values, i) = At(values, j)
    /\ \E i, j \in 0..(Len(values) - 1) : At(values, i) < At(values, j)

-----------------------------------------------------------------------------
(* Claims about the forest and the size of RankPairingHeap *)

\* the roots of the half trees
Roots == (IF first_root = NULL THEN {} ELSE {first_root}) \cup other_roots

\* the Nodes reached from the Nodes S through left and right pointers
RECURSIVE ReachedFrom(_)
ReachedFrom(S) ==
    LET T == (S \cup {nodes[k].left : k \in S} \cup {nodes[k].right : k \in S}) \ {NULL}
    IN IF T = S THEN S ELSE ReachedFrom(T)

\* the left and right pointers of reached Nodes that lead to the Node k
PointersTo(k) ==
    {<<p, side>> \in ReachedFrom(Roots) \X {"left", "right"} :
        (IF side = "left" THEN nodes[p].left ELSE nodes[p].right) = k}

SizeIsLiveCount ==
    /\ rph_size(RphState) = Cardinality({k \in Keys : live[k] > 0})
    /\ rph_empty(RphState) <=> (rph_size(RphState) = 0)

\* C32: after any sequence of push_or_reprioritize calls and of pops on a
\* non-empty heap, size() is the number of distinct values pushed and not yet
\* popped and empty() is true iff size() == 0; reprioritizing a live value
\* and pushing a popped value do not change size().
C32_SizeBookkeeping ==
    [][/\ SizeIsLiveCount
       /\ SizeIsLiveCount'
       /\ op' \in {<<"push_or_reprioritize", b>> : b \in {"raised", "kept", "popped"}}
             => num_items' = num_items
       /\ op' = <<"push_or_reprioritize", "new">> => num_items' = num_items + 1
       /\ op' = <<"pop">> => num_items' = num_items - 1]_vars

\* a live value has just been reprioritized upwards in a heap of two live
\* values or more from which a value was popped
C32_Witness ==
    /\ op = <<"push_or_reprioritize", "raised">>
    /\ \E k \in Keys : current_nodes[k] = "null"
    /\ rph_size(RphState) >= 2

-----------------------------------------------------------------------------
(* Claims about the ranks and sizes of UnionFind *)

\* the root of index i in the forest uf, read without compression
RootOf(uf, i) == traverse_up(uf, i, <<>>)[2]

\* ranks and sizes are the same in a and b except at the indices S
SameRanks(a, b, S) == \A k \in Indices \ S : a[k].rank = b[k].rank
SameSizes(a, b, S) == \A k \in Indices \ S : a[k].size = b[k].size

\* from before to after the root loser has become a child of the root
\* winner, which got rank
MergedUnder(before, after, winner, loser, rank) ==
    /\ after[loser].head = winner
    /\ after[winner].head = winner
    /\ after[winner].rank = rank
    /\ after[loser].rank = before[loser].rank
    /\ after[winner].size = before[winner].size + before[loser].size
    /\ SameRanks(after, before, {winner, loser})
    /\ SameSizes(after, before, {winner})

\* C33: union_groups(i, j) merges by rank: of two different roots the one
\* of strictly lower rank becomes a child of the other and no rank changes;
\* with equal ranks one becomes the child of the other, whose rank goes up
\* by exactly one; the surviving root's size becomes the sum of the two
\* sizes; with one and the same root no size and no rank changes.
C33_MergeByRank ==
    \A i \in Indices : \A j \in Indices :
        LET after == union_groups(uf_nodes, i, j)
            ri == RootOf(uf_nodes, i)
            rj == RootOf(uf_nodes, j)
        IN IF ri = rj
           THEN SameRanks(after, uf_nodes, {}) /\ SameSizes(after, uf_nodes, {})
           ELSE IF uf_nodes[ri].rank > uf_nodes[rj].rank
           THEN MergedUnder(uf_nodes, after, ri, rj, uf_nodes[ri].rank)
           ELSE IF uf_nodes[ri].rank < uf_nodes[rj].rank
           THEN MergedUnder(uf_nodes, after, rj, ri, uf_nodes[rj].rank)
           ELSE \/ MergedUnder(uf_nodes, after, ri, rj, uf_nodes[ri].rank + 1)
                \/ MergedUnder(uf_nodes, after, rj, ri, uf_nodes[rj].rank + 1)

\* a union has put a root of lower rank below a root of rank 2, which now
\* has all five indices
C33_Witness ==
    /\ op = <<"union_groups">>
    /\ \E r \in Indices :
          uf_nodes[r].head = r /\ uf_nodes[r].rank = 2 /\ uf_nodes[r].size = NumIndices

\* the sets of indices of the vectors gs
GroupSets(gs) == {SeqRange(gs[g]) : g \in 1..Len(gs)}

\* the sets of indices group(k) returns on uf
GroupSet(uf, k) == {SeqRange(v) : v \in group(uf, k)}

\* the states a query leaves: find_group(i), group_size(i) and group(i) write
\* what find_group(i) writes
AfterQuery ==
    {find_group(uf_nodes, i)[1] : i \in Indices} \cup {all_groups(uf_nodes)[1]}

\* C34: find_group(i), group_size(i), group(i) and all_groups() may re-point
\* heads but change neither which indices are grouped together, nor the
\* representative of any index, nor the size stored at any root, nor any
\* rank; group(i) and all_groups() give the same sets whichever runs first.
C34_QueriesPreserveState ==
    \A after \in AfterQuery :
        /\ \A k \in Indices : RootOf(after, k) = RootOf(uf_nodes, k)
        /\ \A k \in Indices :
              uf_nodes[k].head = k => after[k].size = uf_nodes[k].size
        /\ SameRanks(after, uf_nodes, {})
        /\ GroupSets(all_groups(after)[2]) = GroupSets(all_groups(uf_nodes)[2])
        /\ \A k \in Indices :
              /\ group_size(after, k) = group_size(uf_nodes, k)
              /\ GroupSet(after, k) = GroupSet(uf_nodes, k)

\* a query has just re-pointed an index to the head of a group of four while
\* another group is left
C34_Witness ==
    /\ op = <<"query">>
    /\ \E r \in Indices :
          /\ uf_nodes[r].head = r
          /\ uf_nodes[r].rank = 2
          /\ uf_nodes[r].size = 4
          /\ Cardinality(uf_nodes[r].children) = 3
          /\ \E c \in uf_nodes[r].children : uf_nodes[c].rank = 1 /\ uf_nodes[c].children = {}

\* 2 to the power k
RECURSIVE Pow2(_)
Pow2(k) == IF k = 0 THEN 1 ELSE 2 * Pow2(k - 1)

\* the indices whose root is r
MembersOf(r) == {i \in Indices : RootOf(uf_nodes, i) = r}

UfRoots == {r \in Indices : uf_nodes[r].head = r}

\* C35: every root r has size(r) >= 2^rank(r) and size(r) is the number of
\* indices whose root is r; the sizes of the roots sum to n and no rank
\* exceeds floor(log2 n).
C35_RankAndSizeBound ==
    /\ \A r \in UfRoots :
          /\ uf_nodes[r].size >= Pow2(uf_nodes[r].rank)
          /\ uf_nodes[r].size = Cardinality(MembersOf(r))
    /\ SumOver([r \in Indices |-> IF r \in UfRoots THEN uf_nodes[r].size ELSE 0], Indices)
          = NumIndices
    /\ \A k \in Indices : Pow2(uf_nodes[k].rank) <= NumIndices

\* a union has left a root of rank 1 with three indices and a root of rank 1
\* with two
C35_Witness ==
    /\ op = <<"union_groups">>
    /\ \E r \in UfRoots : uf_nodes[r].rank = 1 /\ uf_nodes[r].size = 3
    /\ \E r \in UfRoots : uf_nodes[r].rank = 1 /\ uf_nodes[r].size = 2

-----------------------------------------------------------------------------
(* Claims about the tables of RangeMinQuery *)

\* the number of blocks of the sequence the RangeMinQuery r is constructed over
NumBlocks(r) ==
    IF r.end = r.begin THEN 0 ELSE (r.end - r.begin - 1) \div r.block_size + 1

\* the largest k such that 2^k <= m
FloorLog2(m) == CHOOSE k \in 0..m : Pow2(k) <= m /\ m < Pow2(k + 1)

\* the tables of greatest_smaller_power_of_2 and powers_of_2 are filled
TablesBuilt == rmq.pc \notin {"none", "construct"}

\* M[i][k] of the RangeMinQuery r, M being power_block_range_memo
SparseEntry(r, i, k) == r.power_block_range_memo[i + 1][k + 1]

\* C36: after construction over a sequence split into B blocks, for every
\* block i and every k >= 0 with i + 2^k <= B the entry M[i][k] exists and is
\* the absolute index of a minimum element among the 2^k consecutive blocks
\* starting at block i, M[i][0] being the argmin of block i and M[i][k] the
\* better of M[i][k-1] and M[i + 2^(k-1)][k-1]; the construction runs into no
\* undefined behaviour on the way.
C36_SparseTable ==
    /\ rmq.pc # "undefined"
    /\ rmq.pc = "ready" =>
          \A i \in 0..(NumBlocks(rmq) - 1) : \A k \in 0..NumBlocks(rmq) :
              i + Pow2(k) <= NumBlocks(rmq) =>
                  /\ InBounds(rmq.power_block_range_memo, i)
                  /\ InBounds(rmq.power_block_range_memo[i + 1], k)
                  /\ LET lo == rmq.blocks[i + 1].begin
                         hi == rmq.blocks[i + Pow2(k)].end
                         m == SparseEntry(rmq, i, k)
                     IN  /\ lo <= m /\ m < hi
                         /\ Elem(rmq.A, m) = RangeMinimum(rmq.A, lo, hi)
                         /\ k > 0 => m \in {SparseEntry(rmq, i, k - 1),
                                             SparseEntry(rmq, i + Pow2(k - 1), k - 1)}

\* C37: after construction over a sequence of length n >= 1 with B blocks,
\* for every m with 1 <= m <= B the entry greatest_smaller_power_of_2[m]
\* exists and is the largest k such that 2^k <= m, and powers_of_2[k] is 2^k
\* for every such k; no index used on the table is outside its bounds.
C37_FloorLog2Table ==
    /\ ~bad_read
    /\ (TablesBuilt /\ Len(rmq.A) >= 1) =>
          \A m \in 1..NumBlocks(rmq) :
              /\ InBounds(rmq.greatest_smaller_power_of_2, m)
              /\ rmq.greatest_smaller_power_of_2[m + 1] = FloorLog2(m)
              /\ \A k \in 0..FloorLog2(m) :
                    /\ InBounds(rmq.powers_of_2, k)
                    /\ rmq.powers_of_2[k + 1] = Pow2(k)

-----------------------------------------------------------------------------
(* Claims about the delivery and the drainers of QueueDeleter *)

\* the queue() invocations, a thread and a position in its stack each
Frames == {f \in Threads \X (1..(MaxListNodes + 1)) : f[2] <= Len(threads[f[1]].stack)}

FrameOf(f) == threads[f[1]].stack[f[2]]

\* the invocations between becoming the drainer and returning from the loop
Drainers == {f \in Frames : FrameOf(f).pc \in DrainPcs}

\* the list Nodes passed to queue(): those whose last owner has let go
Passed == {n \in ListNodes : (n = 1 \/ lists.next[n] # NULL) /\ lists.use_count[n] = 0}

\* the Nodes linked in the pending list, from the Node n on
RECURSIVE LinkedFrom(_, _)
LinkedFrom(n, seen) ==
    IF n = NULL \/ n \in seen THEN seen ELSE LinkedFrom(qd.next[n], seen \cup {n})

PendingList == LinkedFrom(qd.head, {})

\* the invocations that hold a popped Node, and those that have not yet
\* appended theirs
Holders(n) ==
    {f \in Frames : FrameOf(f).pc \in (DrainPcs \ {"pop"}) /\ FrameOf(f).delete_node = n}
Arriving(n) ==
    {f \in Frames : FrameOf(f).pc = "enqueue" /\ FrameOf(f).to_delete = n}

\* every Node passed to queue() is in one place: with the call that brings
\* it, in the pending list, with the one drainer that deletes it, or deleted
DeliverySafe ==
    /\ lists.deleted \subseteq Passed
    /\ PendingList \subseteq Passed
    /\ \A n \in Passed :
          /\ Cardinality(Arriving(n)) + Cardinality(Holders(n))
                + (IF n \in PendingList THEN 1 ELSE 0)
                + (IF n \in lists.deleted /\ Holders(n) = {} THEN 1 ELSE 0) = 1
          /\ n \in lists.deleted =>
                \A f \in Holders(n) : FrameOf(f).pc = "delete_node"
    /\ (\A t \in Threads : Len(threads[t].stack) = 0) =>
          /\ qd.head = NULL
          /\ qd.tail = NULL
          /\ lists.deleted = Passed

\* C38: under any interleaving of queue() calls, those made by destructors
\* run from the drain loop included, every pointer passed to queue() is
\* deleted exactly once, never twice and never while it is linked in the
\* pending list, and under fair scheduling it is deleted in the end; once
\* all queue() calls have returned, head and tail are null.
C38_Delivery ==
    /\ []DeliverySafe
    /\ \A n \in ListNodes : (n \in Passed) ~> (n \in lists.deleted)

\* the last queue() call has returned after three Nodes were deleted, the
\* QueueDeleter with them
C38_Witness ==
    /\ op[1] = "delete_node"
    /\ \A t \in Threads : Len(threads[t].stack) = 0
    /\ lists.deleted = ListNodes
    /\ qd.destroyed

\* C39: at every moment at most one queue() invocation, over all threads and
\* all nested frames, is between becoming the drainer and returning from the
\* drain loop; an enqueue that arrives while a drainer is deleting an item
\* starts no second drain loop.
C39_SingleDrainer ==
    Cardinality(Drainers) <= 1

====
